---- MODULE Spec2Model ----
(***************************************************************************)
(* Webflow and Resend tool adapters for the AI SDK.                        *)
(*                                                                         *)
(* Every tool's execute function is an async handler: it runs its          *)
(* synchronous prefix (validation, identifier resolution, request          *)
(* construction), suspends at each remote call and resumes when the call   *)
(* settles.  The model keeps one record per invocation slot and one action *)
(* per handler segment.                                                    *)
(***************************************************************************)
EXTENDS Integers, Sequences, FiniteSets, TLC

VARIABLES
    env,    \* process.env: the variables the two modules read
    inv,    \* invocation slots: position, inputs, locals, calls made and their
            \* outcomes, result, console output
    probe   \* one application of a pure helper: inputs and its output

vars == <<env, inv, probe>>

-----------------------------------------------------------------------------
(* JavaScript values.  Each type has its own record field, so that values  *)
(* of different types are unequal without comparing their payloads.        *)

Str(s)  == [str |-> s]
Num(n)  == [num |-> n]
Bool(b) == [bool |-> b]
Arr(q)  == [arr |-> q]
Obj(f)  == [obj |-> f]
Null    == [null |-> TRUE]
Undef   == [undef |-> TRUE]

IsStr(v)  == DOMAIN v = {"str"}
IsNum(v)  == DOMAIN v = {"num"}
IsBool(v) == DOMAIN v = {"bool"}
IsArr(v)  == DOMAIN v = {"arr"}
IsObj(v)  == DOMAIN v = {"obj"}

IsNullish(v) == v = Null \/ v = Undef

\* ToBoolean: "", 0, false, null and undefined are falsy; objects and arrays
\* are truthy.
Truthy(v) ==
    IF IsStr(v) THEN v.str # ""
    ELSE IF IsNum(v) THEN v.num # 0
    ELSE IF IsBool(v) THEN v.bool
    ELSE ~IsNullish(v)

\* a ?? b
Coalesce(a, b) == IF IsNullish(a) THEN b ELSE a

\* a || b
OrElse(a, b) == IF Truthy(a) THEN a ELSE b

\* obj[key] on a value that is not null or undefined: an own property of an
\* object, undefined otherwise.
Get(v, k) ==
    IF IsObj(v) /\ k \in DOMAIN v.obj THEN v.obj[k] ELSE Undef

RECURSIVE JsString(_)
RECURSIVE JoinFrom(_, _)

\* Array.prototype.join(",") from index i on.
JoinFrom(q, i) ==
    IF i > Len(q) THEN ""
    ELSE (IF IsNullish(q[i]) THEN "" ELSE JsString(q[i]))
         \o (IF i < Len(q) THEN "," ELSE "")
         \o JoinFrom(q, i + 1)

\* String(v)
JsString(v) ==
    IF IsStr(v) THEN v.str
    ELSE IF IsNum(v) THEN ToString(v.num)
    ELSE IF IsBool(v) THEN (IF v.bool THEN "true" ELSE "false")
    ELSE IF v = Null THEN "null"
    ELSE IF v = Undef THEN "undefined"
    ELSE IF IsArr(v) THEN JoinFrom(v.arr, 1)
    ELSE "[object Object]"

\* Boolean(v)
JsBoolean(v) == Bool(Truthy(v))

\* A completion of a piece of code: a value, or a thrown value.
Ok(v)     == [ok |-> v]
Thrown(e) == [thrown |-> e]
IsOk(r)   == DOMAIN r = {"ok"}

\* new Error(message), and the TypeError the engine raises.
JsError(msg) == [error |-> msg]
IsError(e)   == DOMAIN e = {"error"}

\* error instanceof Error ? error.message : fallback
ErrorMessage(e, fallback) == IF IsError(e) THEN e.error ELSE fallback

-----------------------------------------------------------------------------
(* Credentials, identifier resolution and field normalization.             *)

BASE_URL == "https://api.webflow.com/v2"

ApiKeyRequired == "WEBFLOW_API_KEY environment variable is required"

SiteIdRequired ==
    "A site ID is required. Either pass a siteId or set the WEBFLOW_SITE_ID environment variable."

\* getApiKey returning a key captured once, whatever the environment holds now.
getApiKeyCached(e) == Ok(Str("wf-key"))

getApiKey(e) ==
    LET apiKey == e.WEBFLOW_API_KEY
    IN  IF ~Truthy(apiKey) THEN Thrown(JsError(ApiKeyRequired)) ELSE Ok(apiKey)

getDefaultSiteId(e) == Coalesce(e.WEBFLOW_SITE_ID, Str(""))

\* Resolution that prefers the configured site over the argument.
resolveSiteIdConfiguredFirst(e, siteId) ==
    LET resolved == OrElse(getDefaultSiteId(e), siteId)
    IN  IF ~Truthy(resolved) THEN Thrown(JsError(SiteIdRequired)) ELSE Ok(resolved)

resolveSiteId(e, siteId) ==
    LET resolved == OrElse(siteId, getDefaultSiteId(e))
    IN  IF ~Truthy(resolved) THEN Thrown(JsError(SiteIdRequired)) ELSE Ok(resolved)

\* The normalizer with the camelCase key tried first.
getStringFieldCamelFirst(obj, snakeCase, camelCase) ==
    IF Truthy(Get(obj, camelCase)) THEN Str(JsString(Get(obj, camelCase)))
    ELSE IF Truthy(Get(obj, snakeCase)) THEN Str(JsString(Get(obj, snakeCase)))
    ELSE Undef

getStringField(obj, snakeCase, camelCase) ==
    IF Truthy(Get(obj, snakeCase)) THEN Str(JsString(Get(obj, snakeCase)))
    ELSE IF Truthy(Get(obj, camelCase)) THEN Str(JsString(Get(obj, camelCase)))
    ELSE Undef

-----------------------------------------------------------------------------
(* Transport helper.  callApi is split at its one suspension point: what   *)
(* it does before fetch is issued, and what it does with fetch's outcome.  *)

RECURSIVE QueryFrom(_, _, _)

\* url.searchParams.set(key, String(value)) for every defined entry, in order.
QueryFrom(params, i, first) ==
    IF i > Len(params) THEN ""
    ELSE IF params[i][2] = Undef THEN QueryFrom(params, i + 1, first)
    ELSE (IF first THEN "?" ELSE "&") \o params[i][1] \o "=" \o JsString(params[i][2])
         \o QueryFrom(params, i + 1, FALSE)

\* The request fetch is called with, or the error thrown before any request.
callApiSend(e, path, method, body, params) ==
    LET key == getApiKey(e)
    IN  IF ~IsOk(key) THEN Thrown(key.thrown)
        ELSE Ok([ url     |-> BASE_URL \o path \o QueryFrom(params, 1, TRUE),
                  method  |-> method,
                  headers |-> {<<"Authorization", "Bearer " \o key.ok.str>>}
                              \cup (IF Truthy(body)
                                    THEN {<<"Content-Type", "application/json">>}
                                    ELSE {}),
                  body    |-> body ])

\* response.ok
ResponseOk(status) == status >= 200 /\ status <= 299

ApiErrorMessage(status, text) ==
    "Webflow API error " \o ToString(status) \o ": " \o text

\* callApi without the response.ok test: every response is parsed as JSON.
\* callApiReceive parsing the body before it looks at the status: a body that
\* is no JSON fails with the parser's error.
callApiReceiveParsing(outcome) ==
    IF "reject" \in DOMAIN outcome THEN Thrown(outcome.reject)
    ELSE IF ~IsOk(outcome.json) THEN outcome.json
    ELSE IF ~ResponseOk(outcome.status)
         THEN Thrown(JsError(ApiErrorMessage(outcome.status, outcome.text)))
         ELSE outcome.json

callApiReceiveUnchecked(outcome) ==
    IF "reject" \in DOMAIN outcome THEN Thrown(outcome.reject) ELSE outcome.json

\* What callApi completes with, given how fetch settled: a rejection, or a
\* response with its status, its body as text() reads it and as json() parses it.
callApiReceive(outcome) ==
    IF "reject" \in DOMAIN outcome THEN Thrown(outcome.reject)
    ELSE IF ~ResponseOk(outcome.status)
         THEN Thrown(JsError(ApiErrorMessage(outcome.status, outcome.text)))
         ELSE outcome.json

\* The TypeError raised by reading a property of null or undefined, and by
\* calling something that is no function.
CannotRead(v, prop) ==
    JsError("Cannot read properties of " \o JsString(v) \o " (reading '" \o prop \o "')")

NotAFunction(expr) == JsError(expr \o " is not a function")

\* What a map over an array throws: the error of the first element whose
\* projection throws, Undef when none does.  errs[i] is the error the
\* projection of element i throws, or Undef.
FirstError(errs) ==
    LET bad == {i \in 1..Len(errs) : errs[i] # Undef}
    IN  IF bad = {} THEN Undef
        ELSE errs[CHOOSE i \in bad : \A j \in bad : i <= j]

\* The elements of v when v is an array.
Elements(v) == IF IsArr(v) THEN v.arr ELSE <<>>

-----------------------------------------------------------------------------
(* Invocation slots.                                                       *)

NoArgs == Obj(<<>>)

Idle ==
    [ pc             |-> "idle",
      tool           |-> "none",
      args           |-> NoArgs,
      calls          |-> <<>>,
      replies        |-> <<>>,
      resolvedSiteId |-> Undef,
      scriptId       |-> Undef,
      result         |-> Undef,
      console        |-> <<>> ]

\* The slot after the handler suspended at a remote call.
Awaiting(tool, args, pc, calls, siteId, scriptId) ==
    [ pc             |-> pc,
      tool           |-> tool,
      args           |-> args,
      calls          |-> calls,
      replies        |-> <<>>,
      resolvedSiteId |-> siteId,
      scriptId       |-> scriptId,
      result         |-> Undef,
      console        |-> <<>> ]

\* The slot after the handler returned `result`, having logged `logged`.
Returned(slot, tool, args, result, logged) ==
    [ slot EXCEPT !.pc = "done", !.tool = tool, !.args = args,
                  !.result = result, !.console = logged ]

\* The slot once the awaited call has settled with `outcome`.
Heard(slot, outcome) == [slot EXCEPT !.replies = Append(@, outcome)]

\* console.error(label, error)
LogEntry(label, e) == <<label, e>>

-----------------------------------------------------------------------------
(* Reshaping helpers shared by the tools.                                  *)

\* StringOr without the default: a missing value stays missing.
StringOrMissing(v, d) == IF IsNullish(v) THEN Undef ELSE Str(JsString(v))

\* String(v ?? d)
StringOr(v, d) == Str(JsString(Coalesce(v, Str(d))))

\* v ? String(v) : undefined
StringIfTruthy(v) == IF Truthy(v) THEN Str(JsString(v)) ELSE Undef

\* v ? Boolean(v) : undefined
BooleanIfTruthy(v) == IF Truthy(v) THEN JsBoolean(v) ELSE Undef

NaN == [nan |-> TRUE]

MaxNumeral == 100

\* Number(v), for the values a pagination object carries.
JsNumber(v) ==
    IF IsNum(v) THEN v
    ELSE IF IsBool(v) THEN Num(IF v.bool THEN 1 ELSE 0)
    ELSE IF v = Null THEN Num(0)
    ELSE IF IsStr(v)
         THEN IF v.str = "" THEN Num(0)
              ELSE IF \E n \in 0..MaxNumeral : ToString(n) = v.str
                   THEN Num(CHOOSE n \in 0..MaxNumeral : ToString(n) = v.str)
                   ELSE NaN
    ELSE IF IsArr(v) /\ Len(v.arr) = 0 THEN Num(0)
    ELSE NaN

\* PaginationEcho with an empty object where the response has no pagination.
PaginationEchoEmptyObject(response) ==
    LET pagination == Get(response, "pagination")
    IN  IF Truthy(pagination)
        THEN Obj([ limit  |-> JsNumber(Coalesce(Get(pagination, "limit"), Num(0))),
                   offset |-> JsNumber(Coalesce(Get(pagination, "offset"), Num(0))),
                   total  |-> JsNumber(Coalesce(Get(pagination, "total"), Num(0))) ])
        ELSE Obj(<<>>)

\* pagination ? { limit: Number(pagination.limit ?? 0), ... } : undefined
PaginationEcho(response) ==
    LET pagination == Get(response, "pagination")
    IN  IF Truthy(pagination)
        THEN Obj([ limit  |-> JsNumber(Coalesce(Get(pagination, "limit"), Num(0))),
                   offset |-> JsNumber(Coalesce(Get(pagination, "offset"), Num(0))),
                   total  |-> JsNumber(Coalesce(Get(pagination, "total"), Num(0))) ])
        ELSE Undef

\* { id: String(d.id ?? ""), url: String(d.url ?? "") }
DomainInfo(d) ==
    Obj([ id  |-> StringOr(Get(d, "id"), ""),
          url |-> StringOr(Get(d, "url"), "") ])

\* MapDomains building its array back to front.
MapDomainsReversed(domains) ==
    IF IsNullish(domains) THEN Undef
    ELSE Arr([i \in 1..Len(domains.arr) |->
                 DomainInfo(domains.arr[Len(domains.arr) + 1 - i])])

\* domains?.map(d => ({ id, url }))
MapDomains(domains) ==
    IF IsNullish(domains) THEN Undef ELSE Arr([i \in 1..Len(domains.arr) |-> DomainInfo(domains.arr[i])])

ElementError(d, prop) == IF IsNullish(d) THEN CannotRead(d, prop) ELSE Undef

\* What domains?.map(...) throws, or Undef.
MapDomainsError(domains) ==
    IF IsNullish(domains) THEN Undef
    ELSE IF ~IsArr(domains) THEN NotAFunction("domains?.map")
    ELSE FirstError([i \in 1..Len(domains.arr) |-> ElementError(domains.arr[i], "id")])

\* response[key] ?? [], as the sequence of its elements.
RawItems(response, key) == Elements(Coalesce(Get(response, key), Arr(<<>>)))

\* ListReshape with the count taken from the page size asked for rather than
\* from the items mapped: every page reported as holding one record.
ListReshapeCountsPage(response, key, field, local, items, errs, extra) ==
    IF IsNullish(response) THEN Thrown(CannotRead(response, key))
    ELSE IF ~IsArr(Coalesce(Get(response, key), Arr(<<>>)))
         THEN Thrown(NotAFunction(local \o ".map"))
    ELSE IF FirstError(errs) # Undef THEN Thrown(FirstError(errs))
    ELSE Ok(Obj((field :> Arr(items))
                @@ ("count" :> Num(1))
                @@ extra))

\* A list tool's success path: response[key] ?? [] mapped to `items`, with the
\* errors the engine raises on a body of the wrong shape; errs[i] is what the
\* projection of element i throws.  `extra` holds the result's other fields.
ListReshape(response, key, field, local, items, errs, extra) ==
    IF IsNullish(response) THEN Thrown(CannotRead(response, key))
    ELSE IF ~IsArr(Coalesce(Get(response, key), Arr(<<>>)))
         THEN Thrown(NotAFunction(local \o ".map"))
    ELSE IF FirstError(errs) # Undef THEN Thrown(FirstError(errs))
    ELSE Ok(Obj((field :> Arr(items))
                @@ ("count" :> Num(Len(items)))
                @@ extra))

\* A list tool's catch block.
ListFailure(field, e, fallback) ==
    Obj((field :> Arr(<<>>))
        @@ ("count" :> Num(0))
        @@ ("error" :> Str(ErrorMessage(e, fallback))))

-----------------------------------------------------------------------------
(* listSites                                                               *)

SiteInfo(raw) ==
    Obj([ id            |-> StringOr(Get(raw, "id"), ""),
          displayName   |-> StringOr(Get(raw, "displayName"), ""),
          shortName     |-> StringOr(Get(raw, "shortName"), ""),
          lastPublished |-> getStringField(raw, "last_published", "lastPublished"),
          lastUpdated   |-> getStringField(raw, "last_updated", "lastUpdated"),
          previewUrl    |-> StringIfTruthy(Get(raw, "previewUrl")),
          timeZone      |-> StringIfTruthy(Get(raw, "timeZone")),
          designerUrl   |-> Str("https://" \o JsString(Get(raw, "shortName"))
                                \o ".design.webflow.com"),
          settingsUrl   |-> Str("https://webflow.com/dashboard/sites/"
                                \o JsString(Get(raw, "shortName")) \o "/general"),
          customDomains |-> MapDomains(Get(raw, "customDomains")) ])

SiteError(raw) ==
    IF IsNullish(raw) THEN CannotRead(raw, "customDomains")
    ELSE MapDomainsError(Get(raw, "customDomains"))

listSitesReshape(response) ==
    LET raw == RawItems(response, "sites")
    IN  ListReshape(response, "sites", "sites", "rawSites",
                    [i \in 1..Len(raw) |-> SiteInfo(raw[i])],
                    [i \in 1..Len(raw) |-> SiteError(raw[i])],
                    <<>>)

-----------------------------------------------------------------------------
(* publishSite                                                             *)

\* The publish request body.
\* The publish body with the subdomain flag sent only when the caller gave it.
publishBodyFlagIfGiven(args) ==
    LET customDomains == Get(args, "customDomains")
        flag          == Get(args, "publishToWebflowSubdomain")
    IN  Obj((IF flag # Undef THEN "publishToWebflowSubdomain" :> flag ELSE <<>>)
            @@ (IF Truthy(customDomains) /\ Len(customDomains.arr) > 0
                THEN "customDomains" :> customDomains
                ELSE <<>>))

\* The publish body with customDomains sent whenever the caller gave a list.
publishBodyAnyDomains(args) ==
    LET customDomains == Get(args, "customDomains")
    IN  Obj(("publishToWebflowSubdomain" :>
                Coalesce(Get(args, "publishToWebflowSubdomain"), Bool(FALSE)))
            @@ (IF Truthy(customDomains)
                THEN "customDomains" :> customDomains
                ELSE <<>>))

publishBody(args) ==
    LET customDomains == Get(args, "customDomains")
    IN  Obj(("publishToWebflowSubdomain" :>
                Coalesce(Get(args, "publishToWebflowSubdomain"), Bool(FALSE)))
            @@ (IF Truthy(customDomains) /\ Len(customDomains.arr) > 0
                THEN "customDomains" :> customDomains
                ELSE <<>>))

publishSiteSend(e, args) ==
    LET resolved == resolveSiteId(e, Get(args, "siteId"))
    IN  IF ~IsOk(resolved) THEN Thrown(resolved.thrown)
        ELSE callApiSend(e, "/sites/" \o JsString(resolved.ok) \o "/publish",
                         "POST", publishBody(args), <<>>)

publishSiteReshape(response) ==
    IF IsNullish(response) THEN Thrown(CannotRead(response, "customDomains"))
    ELSE IF MapDomainsError(Get(response, "customDomains")) # Undef
         THEN Thrown(MapDomainsError(Get(response, "customDomains")))
         ELSE Ok(Obj([ success          |-> Bool(TRUE),
                       publishedDomains |-> MapDomains(Get(response, "customDomains")) ]))

-----------------------------------------------------------------------------
(* listPages, listForms, listFormSubmissions, listCustomCode               *)

\* resolveSiteId, then callApi(`/sites/${resolvedSiteId}${suffix}`, { params }).
SiteGetSend(e, args, suffix, params) ==
    LET resolved == resolveSiteId(e, Get(args, "siteId"))
    IN  IF ~IsOk(resolved) THEN Thrown(resolved.thrown)
        ELSE callApiSend(e, "/sites/" \o JsString(resolved.ok) \o suffix,
                         "GET", Undef, params)

PageParams(args) ==
    << <<"limit", Get(args, "limit")>>, <<"offset", Get(args, "offset")>> >>

SeoInfo(seo) ==
    IF Truthy(seo)
    THEN Obj([ title       |-> StringIfTruthy(Get(seo, "title")),
               description |-> StringIfTruthy(Get(seo, "description")) ])
    ELSE Undef

PageInfo(page) ==
    Obj([ id            |-> StringOr(Get(page, "id"), ""),
          title         |-> StringOr(Get(page, "title"), ""),
          slug          |-> StringOr(Get(page, "slug"), ""),
          archived      |-> BooleanIfTruthy(Get(page, "archived")),
          draft         |-> BooleanIfTruthy(Get(page, "draft")),
          createdOn     |-> getStringField(page, "created_on", "createdOn"),
          lastUpdated   |-> getStringField(page, "last_updated", "lastUpdated"),
          publishedPath |-> StringIfTruthy(Get(page, "publishedPath")),
          seo           |-> SeoInfo(Get(page, "seo")) ])

listPagesReshape(response) ==
    LET raw == RawItems(response, "pages")
    IN  ListReshape(response, "pages", "pages", "rawPages",
                    [i \in 1..Len(raw) |-> PageInfo(raw[i])],
                    [i \in 1..Len(raw) |-> ElementError(raw[i], "seo")],
                    "pagination" :> PaginationEcho(response))

\* Object.entries(rawFields): the own enumerable properties, which for an
\* array or a string are its indices.
EntryKeys(rawFields) ==
    IF IsObj(rawFields) THEN DOMAIN rawFields.obj
    ELSE IF IsArr(rawFields) THEN {ToString(i - 1) : i \in 1..Len(rawFields.arr)}
    ELSE IF IsStr(rawFields) THEN {ToString(i - 1) : i \in 1..Len(rawFields.str)}
    ELSE {}

EntryValue(rawFields, k) ==
    IF IsObj(rawFields) THEN rawFields.obj[k]
    ELSE IF IsArr(rawFields)
         THEN rawFields.arr[CHOOSE i \in 1..Len(rawFields.arr) : ToString(i - 1) = k]
         ELSE Str("?")

FieldInfo(value) ==
    Obj([ displayName |-> StringIfTruthy(Get(value, "displayName")),
          type        |-> StringIfTruthy(Get(value, "type")) ])

parseFormFields(rawFields) ==
    IF ~Truthy(rawFields) THEN Undef
    ELSE IF EntryKeys(rawFields) = {} THEN Undef
    ELSE Obj([k \in EntryKeys(rawFields) |-> FieldInfo(EntryValue(rawFields, k))])

\* What parseFormFields throws (a field definition that is null), or Undef.
parseFormFieldsError(rawFields) ==
    IF ~Truthy(rawFields) THEN Undef
    ELSE IF \E k \in EntryKeys(rawFields) : IsNullish(EntryValue(rawFields, k))
         THEN CannotRead(Null, "displayName")
         ELSE Undef

FormInfo(form) ==
    Obj([ id            |-> StringOr(Get(form, "id"), ""),
          displayName   |-> StringOr(Get(form, "displayName"), ""),
          pageId        |-> StringIfTruthy(Get(form, "pageId")),
          pageName      |-> StringIfTruthy(Get(form, "pageName")),
          formElementId |-> getStringField(form, "form_element_id", "formElementId"),
          fields        |-> parseFormFields(Get(form, "fields")),
          createdOn     |-> getStringField(form, "created_on", "createdOn"),
          lastUpdated   |-> getStringField(form, "last_updated", "lastUpdated") ])

FormError(form) ==
    IF IsNullish(form) THEN CannotRead(form, "id")
    ELSE parseFormFieldsError(Get(form, "fields"))

listFormsReshape(response) ==
    LET raw == RawItems(response, "forms")
    IN  ListReshape(response, "forms", "forms", "rawForms",
                    [i \in 1..Len(raw) |-> FormInfo(raw[i])],
                    [i \in 1..Len(raw) |-> FormError(raw[i])],
                    "pagination" :> PaginationEcho(response))

SubmissionInfo(submission) ==
    Obj([ id            |-> StringOr(Get(submission, "id"), ""),
          displayName   |-> StringIfTruthy(Get(submission, "displayName")),
          dateSubmitted |-> getStringField(submission, "date_submitted", "dateSubmitted"),
          formResponse  |-> Coalesce(Get(submission, "formResponse"), Obj(<<>>)) ])

listFormSubmissionsReshape(response) ==
    LET raw == RawItems(response, "formSubmissions")
    IN  ListReshape(response, "formSubmissions", "formSubmissions", "rawSubmissions",
                    [i \in 1..Len(raw) |-> SubmissionInfo(raw[i])],
                    [i \in 1..Len(raw) |-> ElementError(raw[i], "id")],
                    "pagination" :> PaginationEcho(response))

ScriptInfo(script) ==
    Obj([ id       |-> StringOr(Get(script, "id"), ""),
          location |-> StringOr(Get(script, "location"), ""),
          version  |-> StringOr(Get(script, "version"), "") ])

\* (block.scripts ?? [])
RawScripts(block) == Coalesce(Get(block, "scripts"), Arr(<<>>))

BlockInfo(block) ==
    Obj([ siteId      |-> StringOr(Get(block, "siteId"), ""),
          pageId      |-> StringIfTruthy(Get(block, "pageId")),
          type        |-> StringIfTruthy(Get(block, "type")),
          scripts     |-> Arr([i \in 1..Len(RawScripts(block).arr) |-> ScriptInfo(RawScripts(block).arr[i])]),
          createdOn   |-> getStringField(block, "created_on", "createdOn"),
          lastUpdated |-> getStringField(block, "last_updated", "lastUpdated") ])

BlockError(block) ==
    IF IsNullish(block) THEN CannotRead(block, "scripts")
    ELSE IF ~IsArr(RawScripts(block)) THEN NotAFunction("rawScripts.map")
    ELSE FirstError([i \in 1..Len(RawScripts(block).arr) |->
                        ElementError(RawScripts(block).arr[i], "id")])

listCustomCodeReshape(response) ==
    LET raw == RawItems(response, "blocks")
    IN  ListReshape(response, "blocks", "blocks", "rawBlocks",
                    [i \in 1..Len(raw) |-> BlockInfo(raw[i])],
                    [i \in 1..Len(raw) |-> BlockError(raw[i])],
                    "pagination" :> PaginationEcho(response))

-----------------------------------------------------------------------------
(* addCustomCode: validate, register, apply.                               *)

ScriptLimit == 2000

PageIdRequired ==
    "A pageId is required when target is \"page\". Use listPages to find page IDs."

ScriptTooLong(sourceCode) ==
    "Script exceeds the 2000 character limit (" \o ToString(Len(sourceCode.str))
    \o " characters). Consider hosting the script externally."

NoScriptId == "Failed to register script: no script ID returned"

addCustomCodeRejected(message) ==
    Obj([ success |-> Bool(FALSE), scriptId |-> Str(""), error |-> Str(message) ])

addCustomCodeFailure(e) ==
    addCustomCodeRejected(ErrorMessage(e, "Failed to add custom code"))

\* The gates in the other order: the length test before the pageId test.
addCustomCodeValidateLengthFirst(args) ==
    IF Len(Get(args, "sourceCode").str) > ScriptLimit
    THEN addCustomCodeRejected(ScriptTooLong(Get(args, "sourceCode")))
    ELSE IF Get(args, "target") = Str("page") /\ ~Truthy(Get(args, "pageId"))
         THEN addCustomCodeRejected(PageIdRequired)
         ELSE Undef

\* The gates with the length test written `sourceCode.length >= 2000`.
addCustomCodeValidateInclusive(args) ==
    IF Get(args, "target") = Str("page") /\ ~Truthy(Get(args, "pageId"))
    THEN addCustomCodeRejected(PageIdRequired)
    ELSE IF Len(Get(args, "sourceCode").str) >= ScriptLimit
         THEN addCustomCodeRejected(ScriptTooLong(Get(args, "sourceCode")))
         ELSE Undef

\* The gates with the pageId test written `pageId === undefined`.
addCustomCodeValidateUndefinedOnly(args) ==
    IF Get(args, "target") = Str("page") /\ Get(args, "pageId") = Undef
    THEN addCustomCodeRejected(PageIdRequired)
    ELSE IF Len(Get(args, "sourceCode").str) > ScriptLimit
         THEN addCustomCodeRejected(ScriptTooLong(Get(args, "sourceCode")))
         ELSE Undef

\* The two local gates: the failure result returned before any call, or Undef.
addCustomCodeValidate(args) ==
    IF Get(args, "target") = Str("page") /\ ~Truthy(Get(args, "pageId"))
    THEN addCustomCodeRejected(PageIdRequired)
    ELSE IF Len(Get(args, "sourceCode").str) > ScriptLimit
         THEN addCustomCodeRejected(ScriptTooLong(Get(args, "sourceCode")))
         ELSE Undef

registerBody(args) ==
    Obj([ sourceCode  |-> Get(args, "sourceCode"),
          version     |-> Get(args, "version"),
          displayName |-> Get(args, "displayName") ])

\* Step 1: POST /sites/{site_id}/registered_scripts/inline
addCustomCodeRegister(e, resolvedSiteId, args) ==
    callApiSend(e, "/sites/" \o JsString(resolvedSiteId) \o "/registered_scripts/inline",
                "POST", registerBody(args), <<>>)

\* String(registered.id), without the `?? ""`.
\* registeredScriptId kept in one place all invocations share: the identifier
\* an invocation already in flight holds is taken for the new one.
registeredScriptIdShared(registered) ==
    LET held == {s \in DOMAIN inv : inv[s].scriptId # Undef}
    IN  IF IsNullish(registered) THEN Thrown(CannotRead(registered, "id"))
        ELSE IF held # {} THEN Ok(inv[CHOOSE s \in held : TRUE].scriptId)
        ELSE Ok(StringOr(Get(registered, "id"), ""))

registeredScriptIdUncoalesced(registered) ==
    IF IsNullish(registered) THEN Thrown(CannotRead(registered, "id"))
    ELSE Ok(Str(JsString(Get(registered, "id"))))

\* String(registered.id ?? ""), or the TypeError of a null body.
registeredScriptId(registered) ==
    IF IsNullish(registered) THEN Thrown(CannotRead(registered, "id"))
    ELSE Ok(StringOr(Get(registered, "id"), ""))

scriptPayload(scriptId, args) ==
    Obj([ scripts |-> Arr(<< Obj([ id       |-> scriptId,
                                   location |-> Get(args, "location"),
                                   version  |-> Get(args, "version") ]) >>) ])

\* applyPath that always takes the site-scoped endpoint.
applyPathSiteOnly(resolvedSiteId, args) ==
    "/sites/" \o JsString(resolvedSiteId) \o "/custom_code"

applyPath(resolvedSiteId, args) ==
    IF Get(args, "target") = Str("page") /\ Truthy(Get(args, "pageId"))
    THEN "/pages/" \o JsString(Get(args, "pageId")) \o "/custom_code"
    ELSE "/sites/" \o JsString(resolvedSiteId) \o "/custom_code"

\* Step 2: PUT /sites/{site_id}/custom_code  OR  PUT /pages/{page_id}/custom_code
addCustomCodeApply(e, resolvedSiteId, scriptId, args) ==
    callApiSend(e, applyPath(resolvedSiteId, args), "PUT",
                scriptPayload(scriptId, args), <<>>)

\* appliedTo built from the siteId argument instead of the resolved site ID.
appliedToArgument(resolvedSiteId, args) ==
    IF Get(args, "target") = Str("page")
    THEN Str("page:" \o JsString(Get(args, "pageId")))
    ELSE Str("site:" \o JsString(Get(args, "siteId")))

appliedTo(resolvedSiteId, args) ==
    IF Get(args, "target") = Str("page")
    THEN Str("page:" \o JsString(Get(args, "pageId")))
    ELSE Str("site:" \o JsString(resolvedSiteId))

addCustomCodeSuccess(resolvedSiteId, scriptId, args) ==
    Obj([ success   |-> Bool(TRUE),
          scriptId  |-> scriptId,
          appliedTo |-> appliedTo(resolvedSiteId, args) ])

-----------------------------------------------------------------------------
(* Resend surface: the SDK client and the nine tools.                      *)

ResendKeyRequired == "RESEND_API_KEY environment variable is required"

\* A client built with whatever the variable holds, the check left to the SDK.
getClientUnchecked(e) ==
    LET apiKey == e.RESEND_API_KEY
    IN  Ok(Str(JsString(apiKey)))

getClient(e) ==
    LET apiKey == e.RESEND_API_KEY
    IN  IF ~Truthy(apiKey) THEN Thrown(JsError(ResendKeyRequired)) ELSE Ok(apiKey)

\* getClient(), then the SDK method `api` called with `params`.
SdkSend(e, api, params) ==
    LET resend == getClient(e)
    IN  IF ~IsOk(resend) THEN Thrown(resend.thrown)
        ELSE Ok([ api |-> api, key |-> resend.ok.str, params |-> params ])

\* DefinedParams treating html and template as exclusive: the template is
\* left out when html is given.
DefinedParamsExclusive(args, keys) ==
    [k \in {k \in keys \cap DOMAIN args.obj :
                /\ args.obj[k] # Undef
                /\ ~(k = "template" /\ Get(args, "html") # Undef)} |-> args.obj[k]]

\* The entries of args under `keys` that are not undefined.
DefinedParams(args, keys) ==
    [k \in {k \in keys \cap DOMAIN args.obj : args.obj[k] # Undef} |-> args.obj[k]]

\* The SDK result read data first: the error only matters when data is null.
SdkReceiveDataFirst(outcome) ==
    IF "reject" \in DOMAIN outcome THEN Thrown(outcome.reject)
    ELSE IF ~IsNullish(outcome.data) THEN [data |-> outcome.data]
    ELSE IF Truthy(outcome.error) THEN [failed |-> Get(outcome.error, "message")]
    ELSE [data |-> outcome.data]

\* const { data, error } = await ...; if (error) ...: what the awaited SDK call
\* leaves the handler with.  The call threw, or it resolved with an error
\* whose message the handler returns, or with the data it goes on to reshape.
SdkReceive(outcome) ==
    IF "reject" \in DOMAIN outcome THEN Thrown(outcome.reject)
    ELSE IF Truthy(outcome.error) THEN [failed |-> Get(outcome.error, "message")]
    ELSE [data |-> outcome.data]

toStringArray(value) ==
    IF IsArr(value) THEN value
    ELSE IF IsStr(value) THEN Arr(<<value>>)
    ELSE Arr(<<>>)

\* The catch block of a tool whose failure is { success: false, ...rest }.
SendFailure(rest, message) ==
    Obj(("success" :> Bool(FALSE)) @@ rest @@ ("error" :> message))

SendEmailKeys ==
    { "from", "to", "subject", "html", "text", "replyTo", "cc", "bcc",
      "scheduledAt", "tags", "attachments", "template", "topicId" }

\* sendEmailReshape reporting success only for a send that returned data.
sendEmailReshapeRequiringData(data) ==
    IF IsNullish(data)
    THEN Ok(Obj([ success |-> Bool(FALSE), id |-> Str(""),
                  error   |-> Str("Failed to send email") ]))
    ELSE Ok(Obj([ success |-> Bool(TRUE),
                  id      |-> Coalesce(Get(data, "id"), Str("")) ]))

sendEmailReshape(data) ==
    Ok(Obj([ success |-> Bool(TRUE),
             id      |-> IF IsNullish(data) THEN Str("")
                         ELSE Coalesce(Get(data, "id"), Str("")) ]))

sendBatchEmailsReshape(data) ==
    LET results == IF IsNullish(data) THEN Arr(<<>>)
                   ELSE Coalesce(Get(data, "data"), Arr(<<>>))
    IN  IF ~IsArr(results) THEN Thrown(NotAFunction("results.map"))
        ELSE IF FirstError([i \in 1..Len(results.arr) |->
                               ElementError(results.arr[i], "id")]) # Undef
             THEN Thrown(FirstError([i \in 1..Len(results.arr) |->
                                        ElementError(results.arr[i], "id")]))
             ELSE LET ids == [i \in 1..Len(results.arr) |-> Get(results.arr[i], "id")]
                  IN  Ok(Obj([ success |-> Bool(TRUE),
                               ids     |-> Arr(ids),
                               count   |-> Num(Len(ids)) ]))

EmailFields(email) ==
    [ from      |-> StringOr(Get(email, "from"), ""),
      to        |-> toStringArray(Get(email, "to")),
      subject   |-> StringOr(Get(email, "subject"), ""),
      lastEvent |-> Coalesce(getStringField(email, "last_event", "lastEvent"), Str("")),
      createdAt |-> Coalesce(getStringField(email, "created_at", "createdAt"), Str("")) ]

getEmailReshape(data, emailId) ==
    IF IsNullish(data) THEN Thrown(CannotRead(data, "id"))
    ELSE Ok(Obj(("success" :> Bool(TRUE))
                @@ ("id" :> Str(JsString(Coalesce(Get(data, "id"), emailId))))
                @@ EmailFields(data)))

\* (data?.data ?? []), as the sequence of its elements.
SdkRawItems(data) == RawItems(data, "data")

\* A Resend list tool: (data?.data ?? []) mapped to `items`.
SdkListReshape(data, field, local, items, extra) ==
    LET raw == IF IsNullish(data) THEN Arr(<<>>)
               ELSE Coalesce(Get(data, "data"), Arr(<<>>))
    IN  IF ~IsArr(raw) THEN Thrown(NotAFunction(local \o ".map"))
        ELSE IF \E i \in 1..Len(raw.arr) : IsNullish(raw.arr[i])
             THEN Thrown(CannotRead(Null, "id"))
             ELSE Ok(Obj((field :> Arr(items))
                         @@ ("count" :> Num(Len(items)))
                         @@ extra))

\* if (error) return { <field>: [], count: 0, error: error.message }
SdkListRejected(field, message) ==
    Obj((field :> Arr(<<>>)) @@ ("count" :> Num(0)) @@ ("error" :> message))

EmailInfo(email) ==
    Obj(("id" :> StringOr(Get(email, "id"), "")) @@ EmailFields(email))

listEmailsReshape(data) ==
    SdkListReshape(data, "emails", "rawEmails",
                   [i \in 1..Len(SdkRawItems(data)) |-> EmailInfo(SdkRawItems(data)[i])],
                   <<>>)


\* { email }, the defined optional fields, and segments as [{ id }].
createContactParams(args) ==
    LET plain == DefinedParams(args, { "email", "firstName", "lastName",
                                       "unsubscribed", "properties", "topics" })
    IN  Obj(IF Get(args, "segments") # Undef
            THEN plain @@ ("segments" :>
                     Arr([i \in 1..Len(Get(args, "segments").arr) |->
                             Obj([ id |-> Get(args, "segments").arr[i] ])]))
            ELSE plain)

createContactReshape(data) ==
    IF IsNullish(data) THEN Thrown(CannotRead(data, "id"))
    ELSE Ok(Obj([ success |-> Bool(TRUE), id |-> StringOr(Get(data, "id"), "") ]))

ContactInfo(contact) ==
    Obj([ id           |-> StringOr(Get(contact, "id"), ""),
          email        |-> StringOr(Get(contact, "email"), ""),
          firstName    |-> getStringField(contact, "first_name", "firstName"),
          lastName     |-> getStringField(contact, "last_name", "lastName"),
          unsubscribed |-> JsBoolean(Coalesce(Get(contact, "unsubscribed"), Bool(FALSE))) ])

listContactsReshape(data) ==
    SdkListReshape(data, "contacts", "rawContacts",
                   [i \in 1..Len(SdkRawItems(data)) |-> ContactInfo(SdkRawItems(data)[i])],
                   <<>>)

removeContactReshape(data, id) ==
    IF IsNullish(data) THEN Thrown(CannotRead(data, "deleted"))
    ELSE Ok(Obj([ success |-> Bool(TRUE),
                  deleted |-> JsBoolean(Coalesce(Get(data, "deleted"), Bool(TRUE))),
                  id      |-> Str(JsString(Coalesce(Get(data, "id"), id))) ]))

TemplateInfo(tmpl) ==
    Obj([ id          |-> StringOr(Get(tmpl, "id"), ""),
          name        |-> StringOr(Get(tmpl, "name"), ""),
          alias       |-> StringIfTruthy(Get(tmpl, "alias")),
          status      |-> StringOr(Get(tmpl, "status"), ""),
          createdAt   |-> getStringField(tmpl, "created_at", "createdAt"),
          updatedAt   |-> getStringField(tmpl, "updated_at", "updatedAt"),
          publishedAt |-> getStringField(tmpl, "published_at", "publishedAt") ])

\* Unlike the other list tools, result.data is read without ?. on result.
listTemplatesReshape(data) ==
    IF IsNullish(data) THEN Thrown(CannotRead(data, "data"))
    ELSE SdkListReshape(data, "templates", "rawTemplates",
                        [i \in 1..Len(SdkRawItems(data)) |->
                            TemplateInfo(SdkRawItems(data)[i])],
                        "hasMore" :> JsBoolean(Coalesce(Get(data, "has_more"), Bool(FALSE))))

VariableInfo(v) ==
    Obj([ id            |-> StringOr(Get(v, "id"), ""),
          key           |-> StringOr(Get(v, "key"), ""),
          type          |-> StringOr(Get(v, "type"), "string"),
          fallbackValue |-> getStringField(v, "fallback_value", "fallbackValue") ])

getTemplateReshape(data, id) ==
    IF IsNullish(data) THEN Thrown(CannotRead(data, "variables"))
    ELSE LET rawVariables == Get(data, "variables")
         IN  IF ~IsNullish(rawVariables) /\ ~IsArr(rawVariables)
             THEN Thrown(NotAFunction("rawVariables?.map"))
             ELSE IF ~IsNullish(rawVariables)
                     /\ FirstError([i \in 1..Len(rawVariables.arr) |->
                                       ElementError(rawVariables.arr[i], "id")]) # Undef
             THEN Thrown(FirstError([i \in 1..Len(rawVariables.arr) |->
                                        ElementError(rawVariables.arr[i], "id")]))
             ELSE Ok(Obj([
                 success     |-> Bool(TRUE),
                 id          |-> Str(JsString(Coalesce(Get(data, "id"), id))),
                 name        |-> StringIfTruthy(Get(data, "name")),
                 alias       |-> StringIfTruthy(Get(data, "alias")),
                 status      |-> StringIfTruthy(Get(data, "status")),
                 from        |-> StringIfTruthy(Get(data, "from")),
                 subject     |-> StringIfTruthy(Get(data, "subject")),
                 replyTo     |-> getStringField(data, "reply_to", "replyTo"),
                 variables   |-> IF IsNullish(rawVariables) THEN Undef
                                 ELSE Arr([i \in 1..Len(rawVariables.arr) |-> VariableInfo(rawVariables.arr[i])]),
                 createdAt   |-> getStringField(data, "created_at", "createdAt"),
                 updatedAt   |-> getStringField(data, "updated_at", "updatedAt"),
                 publishedAt |-> getStringField(data, "published_at", "publishedAt") ]))

-----------------------------------------------------------------------------
(* The environment and the upstream: the values process.env can hold, the  *)
(* inputs a caller can pass, and the ways a remote call can settle.        *)

EnvValues ==
    [ WEBFLOW_API_KEY : {Undef, Str(""), Str("wf-key")},
      WEBFLOW_SITE_ID : {Undef, Str(""), Str("env-site")},
      RESEND_API_KEY  : {Undef, Str("re-key")} ]

\* The object with the entries of f that are not undefined: an omitted input.
Given(f) == Obj([k \in {k \in DOMAIN f : f[k] # Undef} |-> f[k]])

SiteIdInputs == {Undef, Str(""), Str("site-1")}

ShortLen == 3

RECURSIVE Repeat(_, _)

\* c.repeat(n)
Repeat(c, n) ==
    IF n = 0 THEN ""
    ELSE IF n % 2 = 0 THEN LET half == Repeat(c, n \div 2) IN half \o half
    ELSE c \o Repeat(c, n - 1)

SourceCodes ==
    {Str(Repeat("x", n)) : n \in {ShortLen, ScriptLimit, ScriptLimit + 1}}

Inputs(tool) ==
    CASE tool = "listSites" -> {NoArgs}
      [] tool = "publishSite" ->
            {Given([siteId |-> id, customDomains |-> d, publishToWebflowSubdomain |-> p]) :
                id \in SiteIdInputs,
                d \in {Undef, Arr(<<>>), Arr(<<Str("dom-1"), Str("dom-2")>>)},
                p \in {Undef, Bool(TRUE), Bool(FALSE)}}
      [] tool \in {"listPages", "listForms", "listCustomCode"} ->
            {Given([siteId |-> id, limit |-> l, offset |-> o]) :
                id \in SiteIdInputs, l \in {Undef, Num(10)}, o \in {Undef, Num(0)}}
      [] tool = "listFormSubmissions" ->
            {Given([siteId |-> id, elementId |-> el, limit |-> l, offset |-> Undef]) :
                id \in SiteIdInputs, el \in {Undef, Str("el-1")}, l \in {Undef, Num(25)}}
      [] tool = "addCustomCode" ->
            {Given([siteId |-> id, target |-> t, pageId |-> pg, sourceCode |-> src,
                    displayName |-> Str("Hello Script"), version |-> Str("1.0.0"),
                    location |-> loc]) :
                id \in SiteIdInputs, t \in {Str("site"), Str("page")},
                pg \in {Undef, Str(""), Str("page-1")}, src \in SourceCodes,
                loc \in {Str("header"), Str("footer")}}
      [] tool = "sendEmail" ->
            {Given([from |-> Str("hello@acme.com"), to |-> Arr(<<Str("user@example.com")>>),
                    subject |-> Str("Welcome!"), html |-> h, text |-> Undef,
                    template |-> tm, topicId |-> tp]) :
                h \in {Undef, Str("<p>Hello!</p>")},
                tm \in {Undef, Obj([id |-> Str("tmpl-1")])},
                tp \in {Undef, Str("")}}
      [] tool = "sendBatchEmails" ->
            {Obj([emails |-> Arr(q)]) :
                q \in { <<Obj([from |-> Str("a@acme.com"), subject |-> Str("One")])>>,
                        <<Obj([from |-> Str("a@acme.com"), subject |-> Str("One")]),
                          Obj([from |-> Str("a@acme.com"), subject |-> Str("Two")])>> }}
      [] tool = "getEmail" -> {Obj([emailId |-> Str("email-123")])}
      [] tool \in {"listEmails", "listContacts"} -> {NoArgs}
      [] tool = "createContact" ->
            {Given([email |-> Str("john@example.com"), firstName |-> f, segments |-> sg]) :
                f \in {Undef, Str("John")},
                sg \in {Undef, Arr(<<Str("seg_123")>>)}}
      [] tool = "removeContact" ->
            {Obj([id |-> i]) : i \in {Str("contact-1"), Str("user@example.com")}}
      [] tool = "listTemplates" ->
            {Given([limit |-> l, after |-> a]) :
                l \in {Undef, Num(10)}, a \in {Undef, Str("tmpl-0")}}
      [] tool = "getTemplate" -> {Obj([id |-> Str("reset-password")])}

\* fetch rejects: with a network error, or with whatever a transport throws.
Rejections == { [reject |-> JsError("fetch failed")], [reject |-> Str("aborted")] }

\* A response: its status, its body as text and the outcome of parsing it.
Response(status, text, json) == [status |-> status, text |-> text, json |-> json]

UnexpectedEnd == Thrown(JsError("Unexpected end of JSON input"))

ErrorResponses ==
    { Response(300, "", UnexpectedEnd),
      Response(401, "{\"message\":\"Unauthorized\"}",
               Ok(Obj([message |-> Str("Unauthorized")]))),
      Response(429, "{\"message\":\"Rate limited\"}",
               Ok(Obj([message |-> Str("Rate limited")]))) }

\* 200 with the parsed body `b`; the text of a success body is never read.
Success(b) == Response(200, "<json>", Ok(b))

\* Bodies every JSON endpoint can answer with.
AnyBodies == { Obj(<<>>), Null }

Bodies(tool) ==
    LET Site1 ==
            Obj([ id |-> Str("site-1"), displayName |-> Str("My Site"), shortName |-> Str("my-site"),
                  lastPublished |-> Str("2025-01-01T00:00:00Z"),
                  lastUpdated |-> Str("2025-01-02T00:00:00Z"),
                  previewUrl |-> Str("https://preview.webflow.com/site-1"),
                  timeZone |-> Str("America/New_York"),
                  customDomains |-> Arr(<<Obj([id |-> Str("dom-1"), url |-> Str("example.com")])>>) ])
        Site2 ==
            Obj([ id |-> Str("site-2"), last_published |-> Str("2025-02-01"),
                  lastPublished |-> Str("2025-03-01"), previewUrl |-> Str(""),
                  customDomains |-> Arr(<<Obj([id |-> Num(7)]),
                                          Obj([id |-> Str("dom-3"), url |-> Str("b.example")])>>) ])
        Page1 ==
            Obj([ id |-> Str("page-1"), title |-> Str("Home"), slug |-> Str("home"),
                  archived |-> Bool(FALSE), draft |-> Bool(TRUE),
                  createdOn |-> Str("2025-01-01"), last_updated |-> Str("2025-01-02"),
                  seo |-> Obj([title |-> Str("Home SEO")]) ])
        Form1 ==
            Obj([ id |-> Str("form-1"), displayName |-> Str("Contact"),
                  pageId |-> Str("page-1"), form_element_id |-> Str("el-1"),
                  fields |-> Obj([ f1 |-> Obj([displayName |-> Str("Email"), type |-> Str("Email")]),
                                   f2 |-> Obj([displayName |-> Str("")]) ]) ])
        Submission1 ==
            Obj([ id |-> Str("sub-1"), displayName |-> Str("Contact"),
                  dateSubmitted |-> Str("2025-01-03"),
                  formResponse |-> Obj([email |-> Str("a@b.c")]) ])
        Block1 ==
            Obj([ siteId |-> Str("site-1"), type |-> Str("site"),
                  scripts |-> Arr(<<Obj([id |-> Str("script-123"), location |-> Str("header"),
                                         version |-> Str("1.0.0")])>>) ])
        Paging ==
            Obj([limit |-> Num(10), offset |-> Num(0), total |-> Str("1")])
    IN
    CASE tool = "listSites" ->
            { Obj([sites |-> Arr(<<Site1>>)]), Obj([sites |-> Arr(<<Site1, Site2>>)]),
              Obj([sites |-> Arr(<<Obj([id |-> Str("site-3"), shortName |-> Str("three")])>>)]),
              Obj([sites |-> Str("none")]), Obj([sites |-> Arr(<<Null>>)]) }
      [] tool = "publishSite" ->
            { Obj([customDomains |-> Arr(<<Obj([id |-> Str("dom-1"),
                                                url |-> Str("example.com")])>>)]) }
      [] tool = "listPages" ->
            { Obj([pages |-> Arr(<<Page1>>), pagination |-> Paging]),
              Obj([pages |-> Arr(<<Page1, Obj(<<>>)>>)]),
              Obj([pages |-> Arr(<<>>), pagination |-> Obj([limit |-> Num(5)])]) }
      [] tool = "listForms" ->
            { Obj([forms |-> Arr(<<Form1>>), pagination |-> Paging]),
              Obj([forms |-> Arr(<<Obj([fields |-> Obj([f1 |-> Null])])>>)]) }
      [] tool = "listFormSubmissions" ->
            { Obj([formSubmissions |-> Arr(<<Submission1, Obj([id |-> Num(0)])>>),
                   pagination |-> Paging]) }
      [] tool = "listCustomCode" ->
            { Obj([blocks |-> Arr(<<Block1>>), pagination |-> Paging]),
              Obj([blocks |-> Arr(<<Obj([scripts |-> Num(1)])>>)]) }
      [] tool = "register" ->
            { Obj([id |-> Str("script-123")]), Obj([id |-> Num(42)]),
              Obj([id |-> Str("")]), Obj([id |-> Null]) }
      [] tool = "apply" -> {}

\* How the fetch of `tool` can settle.
FetchOutcomes(tool) ==
    Rejections \cup ErrorResponses \cup {Response(204, "", UnexpectedEnd)}
    \cup {Success(b) : b \in AnyBodies \cup Bodies(tool)}


\* What an SDK promise resolves to.
Settled(data, error) == [data |-> data, error |-> error]

SdkErrors ==
    { Obj([message |-> Str("Invalid API key"), name |-> Str("validation_error")]),
      Obj([message |-> Str("Unauthorized")]) }

SdkData(tool) ==
    LET Email1 ==
            Obj([ id |-> Str("email-123"), from |-> Str("hello@acme.com"),
                  to |-> Str("user@example.com"), subject |-> Str("Welcome!"),
                  last_event |-> Str("delivered"), created_at |-> Str("2025-01-01") ])
        Template1 ==
            Obj([ id |-> Str("tmpl-1"), name |-> Str("Reset"), alias |-> Str("reset-password"),
                  status |-> Str("published"), created_at |-> Str("2025-01-01"),
                  variables |-> Arr(<<Obj([id |-> Str("v1"), key |-> Str("NAME"),
                                           fallback_value |-> Str("there")])>>) ])
    IN
    CASE tool = "sendEmail" -> { Obj([id |-> Str("email-123")]) }
      [] tool = "sendBatchEmails" ->
            { Obj([data |-> Arr(<<Obj([id |-> Str("e1")]), Obj([id |-> Str("e2")])>>)]),
              Obj([data |-> Arr(<<Obj([id |-> Str("e1")])>>)]) }
      [] tool = "getEmail" -> { Email1, Obj(<<>>) }
      [] tool = "listEmails" ->
            { Obj([data |-> Arr(<<Email1, Obj([to |-> Arr(<<Str("x@y.z")>>)])>>)]) }
      [] tool = "createContact" -> { Obj([id |-> Str("contact-1")]) }
      [] tool = "listContacts" ->
            { Obj([data |-> Arr(<<Obj([ id |-> Str("contact-1"),
                                        email |-> Str("john@example.com"),
                                        first_name |-> Str("John"),
                                        unsubscribed |-> Bool(FALSE) ])>>)]),
              Obj([data |-> Arr(<<Null>>)]) }
      [] tool = "removeContact" ->
            { Obj([deleted |-> Bool(TRUE), id |-> Str("contact-1")]), Obj(<<>>) }
      [] tool = "listTemplates" ->
            { Obj([data |-> Arr(<<Template1>>), has_more |-> Bool(TRUE)]), Obj(<<>>) }
      [] tool = "getTemplate" -> { Template1, Obj([variables |-> Str("none")]) }

\* How the SDK call of `tool` can settle: rejected, resolved with an error
\* object (with or without data beside it), or resolved with data or nothing.
SdkOutcomes(tool) ==
    { [reject |-> JsError("Network error")], [reject |-> Str("timeout")] }
    \cup {Settled(Null, err) : err \in SdkErrors}
    \cup {Settled(d, CHOOSE err \in SdkErrors : TRUE) : d \in SdkData(tool)}
    \cup {Settled(d, Null) : d \in SdkData(tool) \cup {Null}}

-----------------------------------------------------------------------------
(* The tools as handlers: what each does up to its remote call, what it    *)
(* does with the call's outcome, and what its catch block returns.         *)

WebflowTools ==
    { "listSites", "publishSite", "listPages", "listForms", "listFormSubmissions",
      "listCustomCode", "addCustomCode" }

ResendTools ==
    { "sendEmail", "sendBatchEmails", "getEmail", "listEmails", "createContact",
      "listContacts", "removeContact", "listTemplates", "getTemplate" }

\* needsApproval set on every tool that writes upstream.
needsApprovalEveryWrite(tool) ==
    IF tool \in {"publishSite", "addCustomCode", "removeContact",
                 "sendEmail", "sendBatchEmails", "createContact"}
    THEN Bool(TRUE) ELSE Undef

\* The needsApproval property of the tool's descriptor; the descriptors are
\* module-level constants and no code assigns to them.
needsApproval(tool) ==
    CASE tool = "publishSite" -> Bool(TRUE)
      [] tool = "addCustomCode" -> Bool(TRUE)
      [] tool = "removeContact" -> Bool(TRUE)
      [] OTHER -> Undef

\* The first argument of console.error in the tool's catch block.
Label(tool) ==
    CASE tool = "listSites" -> "Error listing sites:"
      [] tool = "publishSite" -> "Error publishing site:"
      [] tool = "listPages" -> "Error listing pages:"
      [] tool = "listForms" -> "Error listing forms:"
      [] tool = "listFormSubmissions" -> "Error listing form submissions:"
      [] tool = "listCustomCode" -> "Error listing custom code:"
      [] tool = "addCustomCode" -> "Error adding custom code:"
      [] tool = "sendEmail" -> "Error sending email:"
      [] tool = "sendBatchEmails" -> "Error sending batch emails:"
      [] tool = "getEmail" -> "Error retrieving email:"
      [] tool = "listEmails" -> "Error listing emails:"
      [] tool = "createContact" -> "Error creating contact:"
      [] tool = "listContacts" -> "Error listing contacts:"
      [] tool = "removeContact" -> "Error removing contact:"
      [] tool = "listTemplates" -> "Error listing templates:"
      [] tool = "getTemplate" -> "Error getting template:"

\* The try block up to the first await: the call issued, or the error thrown.
Send(tool, e, args) ==
    CASE tool = "listSites" -> callApiSend(e, "/sites", "GET", Undef, <<>>)
      [] tool = "publishSite" -> publishSiteSend(e, args)
      [] tool = "listPages" -> SiteGetSend(e, args, "/pages", PageParams(args))
      [] tool = "listForms" -> SiteGetSend(e, args, "/forms", PageParams(args))
      [] tool = "listFormSubmissions" ->
            SiteGetSend(e, args, "/form_submissions",
                        << <<"elementId", Get(args, "elementId")>> >> \o PageParams(args))
      [] tool = "listCustomCode" ->
            SiteGetSend(e, args, "/custom_code/blocks", PageParams(args))
      [] tool = "sendEmail" ->
            SdkSend(e, "emails.send", Obj(DefinedParams(args, SendEmailKeys)))
      [] tool = "sendBatchEmails" -> SdkSend(e, "batch.send", Get(args, "emails"))
      [] tool = "getEmail" -> SdkSend(e, "emails.get", Get(args, "emailId"))
      [] tool = "listEmails" -> SdkSend(e, "emails.list", Undef)
      [] tool = "createContact" -> SdkSend(e, "contacts.create", createContactParams(args))
      [] tool = "listContacts" -> SdkSend(e, "contacts.list", Undef)
      [] tool = "removeContact" ->
            SdkSend(e, "contacts.remove", Obj([ id |-> Get(args, "id") ]))
      [] tool = "listTemplates" ->
            SdkSend(e, "templates.list",
                    Obj(DefinedParams(args, { "limit", "after", "before" })))
      [] tool = "getTemplate" -> SdkSend(e, "templates.get", Get(args, "id"))

\* The try block after the await of a Webflow tool with one call.
WebflowReceive(tool, outcome) ==
    LET response == callApiReceive(outcome)
    IN  IF ~IsOk(response) THEN response
        ELSE CASE tool = "listSites" -> listSitesReshape(response.ok)
               [] tool = "publishSite" -> publishSiteReshape(response.ok)
               [] tool = "listPages" -> listPagesReshape(response.ok)
               [] tool = "listForms" -> listFormsReshape(response.ok)
               [] tool = "listFormSubmissions" -> listFormSubmissionsReshape(response.ok)
               [] tool = "listCustomCode" -> listCustomCodeReshape(response.ok)

\* A Resend tool's failure result with `message` as its error: what the
\* `if (error)` branch returns for error.message, and the catch block for the
\* thrown error's.
ResendRejected(tool, args, message) ==
    CASE tool = "sendEmail" -> SendFailure("id" :> Str(""), message)
      [] tool = "sendBatchEmails" ->
            SendFailure(("ids" :> Arr(<<>>)) @@ ("count" :> Num(0)), message)
      [] tool = "getEmail" -> SendFailure("id" :> Get(args, "emailId"), message)
      [] tool = "listEmails" -> SdkListRejected("emails", message)
      [] tool = "createContact" -> SendFailure("id" :> Str(""), message)
      [] tool = "listContacts" -> SdkListRejected("contacts", message)
      [] tool = "removeContact" ->
            SendFailure(("deleted" :> Bool(FALSE)) @@ ("id" :> Get(args, "id")), message)
      [] tool = "listTemplates" -> SdkListRejected("templates", message)
      [] tool = "getTemplate" -> SendFailure("id" :> Get(args, "id"), message)

\* The success path after the error test.
ResendReshape(tool, args, data) ==
    CASE tool = "sendEmail" -> sendEmailReshape(data)
      [] tool = "sendBatchEmails" -> sendBatchEmailsReshape(data)
      [] tool = "getEmail" -> getEmailReshape(data, Get(args, "emailId"))
      [] tool = "listEmails" -> listEmailsReshape(data)
      [] tool = "createContact" -> createContactReshape(data)
      [] tool = "listContacts" -> listContactsReshape(data)
      [] tool = "removeContact" -> removeContactReshape(data, Get(args, "id"))
      [] tool = "listTemplates" -> listTemplatesReshape(data)
      [] tool = "getTemplate" -> getTemplateReshape(data, Get(args, "id"))

\* The try block after the await of a Resend tool.
ResendReceive(tool, args, outcome) ==
    LET received == SdkReceive(outcome)
    IN  IF "thrown" \in DOMAIN received THEN received
        ELSE IF "failed" \in DOMAIN received
             THEN Ok(ResendRejected(tool, args, received.failed))
             ELSE ResendReshape(tool, args, received.data)

\* The message a catch block reports for a thrown value that is no Error.
Fallback(tool) ==
    CASE tool = "listSites" -> "Failed to list sites"
      [] tool = "publishSite" -> "Failed to publish site"
      [] tool = "listPages" -> "Failed to list pages"
      [] tool = "listForms" -> "Failed to list forms"
      [] tool = "listFormSubmissions" -> "Failed to list form submissions"
      [] tool = "listCustomCode" -> "Failed to list custom code"
      [] tool = "addCustomCode" -> "Failed to add custom code"
      [] tool = "sendEmail" -> "Failed to send email"
      [] tool = "sendBatchEmails" -> "Failed to send batch emails"
      [] tool = "getEmail" -> "Failed to retrieve email"
      [] tool = "listEmails" -> "Failed to list emails"
      [] tool = "createContact" -> "Failed to create contact"
      [] tool = "listContacts" -> "Failed to list contacts"
      [] tool = "removeContact" -> "Failed to remove contact"
      [] tool = "listTemplates" -> "Failed to list templates"
      [] tool = "getTemplate" -> "Failed to get template"

\* The catch block: the failure result for the thrown value e.
Failure(tool, args, e) ==
    CASE tool = "listSites" -> ListFailure("sites", e, Fallback(tool))
      [] tool = "publishSite" ->
            Obj([ success |-> Bool(FALSE),
                  error   |-> Str(ErrorMessage(e, Fallback(tool))) ])
      [] tool = "listPages" -> ListFailure("pages", e, Fallback(tool))
      [] tool = "listForms" -> ListFailure("forms", e, Fallback(tool))
      [] tool = "listFormSubmissions" -> ListFailure("formSubmissions", e, Fallback(tool))
      [] tool = "listCustomCode" -> ListFailure("blocks", e, Fallback(tool))
      [] tool = "addCustomCode" -> addCustomCodeFailure(e)
      [] tool \in ResendTools ->
            ResendRejected(tool, args, Str(ErrorMessage(e, Fallback(tool))))

\* Completed with a catch block that handles Errors and rethrows anything else.
CompletedRethrowing(slot, tool, args, completion) ==
    IF IsOk(completion)
    THEN Returned(slot, tool, args, completion.ok, <<>>)
    ELSE IF IsError(completion.thrown)
         THEN Returned(slot, tool, args, Failure(tool, args, completion.thrown),
                       <<LogEntry(Label(tool), completion.thrown)>>)
         ELSE Returned(slot, tool, args, completion, <<>>)

\* The slot after the try block completed: the value returned, or the catch
\* block's console.error and failure result.
Completed(slot, tool, args, completion) ==
    IF IsOk(completion)
    THEN Returned(slot, tool, args, completion.ok, <<>>)
    ELSE Returned(slot, tool, args, Failure(tool, args, completion.thrown),
                  <<LogEntry(Label(tool), completion.thrown)>>)


\* const resolvedSiteId = resolveSiteId(siteId), where the tool has that local.
ResolvedLocal(tool, e, args) ==
    IF tool \in WebflowTools \ {"listSites"} /\ IsOk(resolveSiteId(e, Get(args, "siteId")))
    THEN resolveSiteId(e, Get(args, "siteId")).ok
    ELSE Undef

\* A tool with one remote call, from its entry to its await (or its return).
Entered(tool, e, args) ==
    LET sent == Send(tool, e, args)
    IN  IF IsOk(sent)
        THEN Awaiting(tool, args, "await", <<sent.ok>>, ResolvedLocal(tool, e, args), Undef)
        ELSE Completed(Idle, tool, args, sent)

\* Resumed with one retry: a rejected call is issued a second time.
ResumedRetrying(slot, outcome) ==
    IF "reject" \in DOMAIN outcome /\ Len(slot.calls) = 1
    THEN [slot EXCEPT !.calls = Append(@, @[1])]
    ELSE Completed(slot, slot.tool, slot.args,
                   IF slot.tool \in WebflowTools
                   THEN WebflowReceive(slot.tool, outcome)
                   ELSE ResendReceive(slot.tool, slot.args, outcome))

\* The same tool from its await to its return.
Resumed(slot, outcome) ==
    Completed(slot, slot.tool, slot.args,
              IF slot.tool \in WebflowTools
              THEN WebflowReceive(slot.tool, outcome)
              ELSE ResendReceive(slot.tool, slot.args, outcome))

\* addCustomCode from its entry to the await of the Register call.
addCustomCodeEntered(e, args) ==
    LET rejected == addCustomCodeValidate(args)
        resolved == resolveSiteId(e, Get(args, "siteId"))
        sent     == addCustomCodeRegister(e, resolved.ok, args)
    IN  IF rejected # Undef THEN Returned(Idle, "addCustomCode", args, rejected, <<>>)
        ELSE IF ~IsOk(resolved) THEN Completed(Idle, "addCustomCode", args, resolved)
        ELSE IF ~IsOk(sent) THEN Completed(Idle, "addCustomCode", args, sent)
        ELSE Awaiting("addCustomCode", args, "awaitRegister", <<sent.ok>>,
                      resolved.ok, Undef)

\* addCustomCodeRegistered returning its success as soon as the script is
\* registered, the Apply call never issued.
addCustomCodeRegisteredOnly(e, slot, outcome) ==
    LET registered == callApiReceive(outcome)
        scriptId   == registeredScriptId(registered.ok)
    IN  IF ~IsOk(registered) THEN Completed(slot, slot.tool, slot.args, registered)
        ELSE IF ~IsOk(scriptId) THEN Completed(slot, slot.tool, slot.args, scriptId)
        ELSE IF ~Truthy(scriptId.ok)
             THEN Returned(slot, slot.tool, slot.args, addCustomCodeRejected(NoScriptId), <<>>)
        ELSE Returned(slot, slot.tool, slot.args,
                      addCustomCodeSuccess(slot.resolvedSiteId, scriptId.ok, slot.args),
                      <<>>)

\* addCustomCode from the Register call's outcome to the await of the Apply call.
addCustomCodeRegistered(e, slot, outcome) ==
    LET registered == callApiReceive(outcome)
        scriptId   == registeredScriptId(registered.ok)
        sent       == addCustomCodeApply(e, slot.resolvedSiteId, scriptId.ok, slot.args)
    IN  IF ~IsOk(registered) THEN Completed(slot, slot.tool, slot.args, registered)
        ELSE IF ~IsOk(scriptId) THEN Completed(slot, slot.tool, slot.args, scriptId)
        ELSE IF ~Truthy(scriptId.ok)
             THEN Returned(slot, slot.tool, slot.args, addCustomCodeRejected(NoScriptId), <<>>)
        ELSE IF ~IsOk(sent)
             THEN Completed([slot EXCEPT !.scriptId = scriptId.ok], slot.tool, slot.args, sent)
        ELSE [slot EXCEPT !.pc = "awaitApply", !.calls = Append(@, sent.ok),
                          !.scriptId = scriptId.ok]

\* addCustomCodeApplied naming the registered script in the failure of Apply.
addCustomCodeAppliedNamingOrphan(slot, outcome) ==
    LET applied == callApiReceive(outcome)
        failed  == Completed(slot, slot.tool, slot.args, applied)
    IN  IF ~IsOk(applied)
        THEN [failed EXCEPT !.result =
                 Obj([ success  |-> Bool(FALSE),
                       scriptId |-> slot.scriptId,
                       error    |-> Get(failed.result, "error") ])]
        ELSE Returned(slot, slot.tool, slot.args,
                      addCustomCodeSuccess(slot.resolvedSiteId, slot.scriptId, slot.args),
                      <<>>)

\* addCustomCodeApplied with a compensating request: a failed Apply is followed
\* by a DELETE of the registered script.
addCustomCodeAppliedRollingBack(slot, outcome) ==
    LET applied == callApiReceive(outcome)
        undo    == [ url     |-> BASE_URL \o "/sites/" \o JsString(slot.resolvedSiteId)
                                   \o "/registered_scripts/" \o JsString(slot.scriptId),
                     method  |-> "DELETE",
                     headers |-> slot.calls[1].headers,
                     body    |-> Undef ]
    IN  IF ~IsOk(applied)
        THEN Completed([slot EXCEPT !.calls = Append(@, undo)], slot.tool, slot.args, applied)
        ELSE Returned(slot, slot.tool, slot.args,
                      addCustomCodeSuccess(slot.resolvedSiteId, slot.scriptId, slot.args),
                      <<>>)

\* addCustomCode from the Apply call's outcome to its return.
addCustomCodeApplied(slot, outcome) ==
    LET applied == callApiReceive(outcome)
    IN  IF ~IsOk(applied) THEN Completed(slot, slot.tool, slot.args, applied)
        ELSE Returned(slot, slot.tool, slot.args,
                      addCustomCodeSuccess(slot.resolvedSiteId, slot.scriptId, slot.args),
                      <<>>)

-----------------------------------------------------------------------------
(* Actions.                                                                *)

Slots == {1}

NoProbe == [fn |-> "none"]

Init ==
    /\ env \in EnvValues
    /\ inv = [s \in Slots |-> Idle]
    /\ probe = NoProbe

\* The host calls tool.execute(args): the handler runs to its first await.
Execute(s, tool) ==
    /\ inv[s].pc = "idle"
    /\ \E args \in Inputs(tool) :
          inv' = [inv EXCEPT ![s] = Entered(tool, env, args)]
    /\ UNCHANGED <<env, probe>>

\* The remote call settles: the handler runs to its return.
Resume(s, tool) ==
    /\ inv[s].pc = "await"
    /\ inv[s].tool = tool
    /\ \E outcome \in (IF tool \in WebflowTools THEN FetchOutcomes(tool)
                                               ELSE SdkOutcomes(tool)) :
          inv' = [inv EXCEPT ![s] = Resumed(Heard(inv[s], outcome), outcome)]
    /\ UNCHANGED <<env, probe>>

AddCustomCode(s) ==
    /\ inv[s].pc = "idle"
    /\ \E args \in Inputs("addCustomCode") :
          inv' = [inv EXCEPT ![s] = addCustomCodeEntered(env, args)]
    /\ UNCHANGED <<env, probe>>

AddCustomCodeRegisterSettled(s) ==
    /\ inv[s].pc = "awaitRegister"
    /\ \E outcome \in FetchOutcomes("register") :
          inv' = [inv EXCEPT ![s] =
                      addCustomCodeRegistered(env, Heard(inv[s], outcome), outcome)]
    /\ UNCHANGED <<env, probe>>

AddCustomCodeApplySettled(s) ==
    /\ inv[s].pc = "awaitApply"
    /\ \E outcome \in FetchOutcomes("apply") :
          inv' = [inv EXCEPT ![s] = addCustomCodeApplied(Heard(inv[s], outcome), outcome)]
    /\ UNCHANGED <<env, probe>>

\* The caller takes the result the handler's promise resolved with.
TakeResult(s) ==
    /\ inv[s].pc = "done"
    /\ inv' = [inv EXCEPT ![s] = Idle]
    /\ UNCHANGED <<env, probe>>

\* The host process sets or deletes one of the variables the modules read.
SetEnv ==
    /\ \E e \in EnvValues :
          /\ Cardinality({k \in DOMAIN env : e[k] # env[k]}) = 1
          /\ env' = e
    /\ UNCHANGED <<inv, probe>>

Next ==
    \/ \E s \in DOMAIN inv : Execute(s, "listSites")
    \/ \E s \in DOMAIN inv : Resume(s, "listSites")
    \/ \E s \in DOMAIN inv : Execute(s, "publishSite")
    \/ \E s \in DOMAIN inv : Resume(s, "publishSite")
    \/ \E s \in DOMAIN inv : Execute(s, "listPages")
    \/ \E s \in DOMAIN inv : Resume(s, "listPages")
    \/ \E s \in DOMAIN inv : Execute(s, "listForms")
    \/ \E s \in DOMAIN inv : Resume(s, "listForms")
    \/ \E s \in DOMAIN inv : Execute(s, "listFormSubmissions")
    \/ \E s \in DOMAIN inv : Resume(s, "listFormSubmissions")
    \/ \E s \in DOMAIN inv : Execute(s, "listCustomCode")
    \/ \E s \in DOMAIN inv : Resume(s, "listCustomCode")
    \/ \E s \in DOMAIN inv : AddCustomCode(s)
    \/ \E s \in DOMAIN inv : AddCustomCodeRegisterSettled(s)
    \/ \E s \in DOMAIN inv : AddCustomCodeApplySettled(s)
    \/ \E s \in DOMAIN inv : Execute(s, "sendEmail")
    \/ \E s \in DOMAIN inv : Resume(s, "sendEmail")
    \/ \E s \in DOMAIN inv : Execute(s, "sendBatchEmails")
    \/ \E s \in DOMAIN inv : Resume(s, "sendBatchEmails")
    \/ \E s \in DOMAIN inv : Execute(s, "getEmail")
    \/ \E s \in DOMAIN inv : Resume(s, "getEmail")
    \/ \E s \in DOMAIN inv : Execute(s, "listEmails")
    \/ \E s \in DOMAIN inv : Resume(s, "listEmails")
    \/ \E s \in DOMAIN inv : Execute(s, "createContact")
    \/ \E s \in DOMAIN inv : Resume(s, "createContact")
    \/ \E s \in DOMAIN inv : Execute(s, "listContacts")
    \/ \E s \in DOMAIN inv : Resume(s, "listContacts")
    \/ \E s \in DOMAIN inv : Execute(s, "removeContact")
    \/ \E s \in DOMAIN inv : Resume(s, "removeContact")
    \/ \E s \in DOMAIN inv : Execute(s, "listTemplates")
    \/ \E s \in DOMAIN inv : Resume(s, "listTemplates")
    \/ \E s \in DOMAIN inv : Execute(s, "getTemplate")
    \/ \E s \in DOMAIN inv : Resume(s, "getTemplate")
    \/ \E s \in DOMAIN inv : TakeResult(s)
    \/ SetEnv

Spec == Init /\ [][Next]_vars

-----------------------------------------------------------------------------
(* Properties.                                                             *)

\* s contains sub, with what precedes it drawn from Pre and what follows
\* from Suf.
Contains(s, sub, Pre, Suf) == \E p \in Pre, q \in Suf : s = p \o sub \o q

\* The response bodies the upstream is modelled to send, as text.
Texts == {r.text : r \in ErrorResponses}

\* A reply that is an HTTP response whose status is outside 200..299.
HttpFailure(r) == "status" \in DOMAIN r /\ (r.status < 200 \/ r.status > 299)

\* The collection field of a list tool's result.
Collection(tool) ==
    CASE tool = "listSites" -> "sites"
      [] tool = "listPages" -> "pages"
      [] tool = "listForms" -> "forms"
      [] tool = "listFormSubmissions" -> "formSubmissions"
      [] tool = "listCustomCode" -> "blocks"
      [] tool = "listEmails" -> "emails"
      [] tool = "listContacts" -> "contacts"
      [] tool = "listTemplates" -> "templates"

ListTools ==
    { "listSites", "listPages", "listForms", "listFormSubmissions", "listCustomCode",
      "listEmails", "listContacts", "listTemplates" }

\* The failure shape of a tool's result: an empty collection with count 0 for
\* a list tool, success: false for the others; a string error in both.
FailureShape(tool, result) ==
    /\ IsStr(Get(result, "error"))
    /\ IF tool \in ListTools
       THEN /\ Get(result, Collection(tool)) = Arr(<<>>)
            /\ Get(result, "count") = Num(0)
       ELSE Get(result, "success") = Bool(FALSE)

\* C1: whenever a remote call of a Webflow tool is answered with a status
\* outside 200..299, the handler has returned (it issued nothing after that
\* call), its result has the tool's failure shape, and the error string
\* contains the status code in decimal.
C1_NonOkStatusIsFailure ==
    \A s \in DOMAIN inv : \A i \in 1..Len(inv[s].replies) :
        (inv[s].tool \in WebflowTools /\ HttpFailure(inv[s].replies[i])) =>
            /\ inv[s].pc = "done"
            /\ i = Len(inv[s].replies)
            /\ Len(inv[s].calls) = i
            /\ FailureShape(inv[s].tool, inv[s].result)
            /\ Contains(Get(inv[s].result, "error").str,
                        ToString(inv[s].replies[i].status),
                        {"Webflow API error "}, {": " \o t : t \in Texts})

\* publishSite answered 429: the handler has returned its failure result.
C1_Witness ==
    \E s \in DOMAIN inv :
        /\ inv[s].pc = "done"
        /\ inv[s].tool = "publishSite"
        /\ Len(inv[s].replies) = 1
        /\ HttpFailure(inv[s].replies[1])
        /\ inv[s].replies[1].status = 429
        /\ Get(inv[s].result, "success") = Bool(FALSE)

\* C2: when the SDK call of a Resend tool resolves with an error object, the
\* result has the tool's failure shape and its error is that object's message,
\* whatever data came beside it; when the call throws an Error, the result has
\* the same shape and its error is the thrown message.
C2_SdkErrorIsFailure ==
    \A s \in DOMAIN inv :
        (inv[s].tool \in ResendTools /\ Len(inv[s].replies) = 1) =>
            LET reply == inv[s].replies[1]
            IN  /\ ("error" \in DOMAIN reply /\ Truthy(reply.error)) =>
                      /\ inv[s].pc = "done"
                      /\ FailureShape(inv[s].tool, inv[s].result)
                      /\ Get(inv[s].result, "error") = Get(reply.error, "message")
                /\ ("reject" \in DOMAIN reply /\ IsError(reply.reject)) =>
                      /\ inv[s].pc = "done"
                      /\ FailureShape(inv[s].tool, inv[s].result)
                      /\ Get(inv[s].result, "error") = Str(reply.reject.error)

\* getEmail resolved with an error object beside data: the failure carries the
\* error's message.
C2_Witness ==
    \E s \in DOMAIN inv :
        /\ inv[s].pc = "done"
        /\ inv[s].tool = "getEmail"
        /\ Len(inv[s].replies) = 1
        /\ "error" \in DOMAIN inv[s].replies[1]
        /\ Truthy(inv[s].replies[1].error)
        /\ ~IsNullish(inv[s].replies[1].data)
        /\ Get(inv[s].result, "success") = Bool(FALSE)

\* C3: an addCustomCode invocation with target "page" and a missing or empty
\* pageId has returned without any call, with success: false and an error
\* containing "pageId is required", whatever its other inputs and the
\* environment.
C3_PageIdGate ==
    \A s \in DOMAIN inv :
        ( /\ inv[s].tool = "addCustomCode"
          /\ Get(inv[s].args, "target") = Str("page")
          /\ Get(inv[s].args, "pageId") \in {Undef, Str("")} ) =>
            /\ inv[s].pc = "done"
            /\ inv[s].calls = <<>>
            /\ Get(inv[s].result, "success") = Bool(FALSE)
            /\ IsStr(Get(inv[s].result, "error"))
            /\ Contains(Get(inv[s].result, "error").str, "pageId is required",
                        {"A "}, {" when target is \"page\". Use listPages to find page IDs."})

\* The gate fired for an empty pageId with an oversized script and no site ID
\* or API key available.
C3_Witness ==
    \E s \in DOMAIN inv :
        /\ inv[s].pc = "done"
        /\ inv[s].tool = "addCustomCode"
        /\ Get(inv[s].args, "target") = Str("page")
        /\ Get(inv[s].args, "pageId") = Str("")
        /\ Len(Get(inv[s].args, "sourceCode").str) > ScriptLimit
        /\ ~Truthy(Get(inv[s].args, "siteId"))
        /\ ~Truthy(env.WEBFLOW_SITE_ID)
        /\ ~Truthy(env.WEBFLOW_API_KEY)
        /\ inv[s].calls = <<>>

\* An addCustomCode invocation that has been entered.
AddCustomCodeSlots == {s \in DOMAIN inv : inv[s].tool = "addCustomCode"}

\* The pageId gate does not fire for these inputs.
PageIdGiven(args) ==
    Get(args, "target") # Str("page") \/ Get(args, "pageId") \notin {Undef, Str("")}

SourceLength(args) == Len(Get(args, "sourceCode").str)

\* The result is the length gate's: success: false, with an error that names
\* the length of the script.
NamesLength(result, args) ==
    /\ Get(result, "success") = Bool(FALSE)
    /\ IsStr(Get(result, "error"))
    /\ Contains(Get(result, "error").str, ToString(SourceLength(args)),
                {"Script exceeds the 2000 character limit ("},
                {" characters). Consider hosting the script externally."})

\* The call is the Register call: POST .../registered_scripts/inline.
IsRegisterCall(call) ==
    /\ call.method = "POST"
    /\ Contains(call.url, "/registered_scripts/inline",
                {BASE_URL \o "/sites/" \o id : id \in {"site-1", "env-site"}}, {""})

\* The handler was stopped before Register by something other than its two
\* local gates: no site ID, or no API key.
StoppedByConfiguration(slot) ==
    /\ slot.pc = "done"
    /\ slot.calls = <<>>
    /\ Get(slot.result, "error") \in {Str(SiteIdRequired), Str(ApiKeyRequired)}

HttpSuccess(r) ==
    /\ "status" \in DOMAIN r
    /\ r.status >= 200 /\ r.status <= 299
    /\ IsOk(r.json)

\* The text of an identifier the upstream returned: a string, or a number
\* in decimal.
IdText(id) == IF IsStr(id) THEN id.str ELSE ToString(id.num)

\* The registration answered with an identifier: a non-empty string, or a number.
CarriesId(r) ==
    /\ HttpSuccess(r)
    /\ \/ IsStr(Get(r.json.ok, "id")) /\ Get(r.json.ok, "id").str # ""
       \/ IsNum(Get(r.json.ok, "id"))

\* C5: when both calls of addCustomCode succeeded and the registration carried
\* an identifier, the result is exactly { success: true, scriptId, appliedTo }:
\* scriptId is the identifier as a string, appliedTo is "page:<pageId>" for
\* target "page" and "site:<id>" for target "site", <id> being the site the
\* Register call was addressed to; there is no error field.
C5_Success ==
    \A s \in AddCustomCodeSlots :
        ( /\ Len(inv[s].replies) = 2
          /\ CarriesId(inv[s].replies[1])
          /\ HttpSuccess(inv[s].replies[2]) ) =>
            /\ inv[s].pc = "done"
            /\ DOMAIN inv[s].result.obj = {"success", "scriptId", "appliedTo"}
            /\ Get(inv[s].result, "success") = Bool(TRUE)
            /\ Get(inv[s].result, "scriptId")
                  = Str(IdText(Get(inv[s].replies[1].json.ok, "id")))
            /\ Get(inv[s].args, "target") = Str("page") =>
                  Get(inv[s].result, "appliedTo")
                      = Str("page:" \o Get(inv[s].args, "pageId").str)
            /\ Get(inv[s].args, "target") = Str("site") =>
                  \E id \in {"site-1", "env-site"} :
                      /\ inv[s].calls[1].url
                            = BASE_URL \o "/sites/" \o id \o "/registered_scripts/inline"
                      /\ Get(inv[s].result, "appliedTo") = Str("site:" \o id)

\* A site-level script applied to the configured site, no siteId being passed.
C5_Witness ==
    \E s \in AddCustomCodeSlots :
        /\ inv[s].pc = "done"
        /\ Len(inv[s].replies) = 2
        /\ CarriesId(inv[s].replies[1])
        /\ HttpSuccess(inv[s].replies[2])
        /\ Get(inv[s].args, "target") = Str("site")
        /\ Get(inv[s].args, "siteId") = Undef
        /\ Get(inv[s].result, "appliedTo") = Str("site:env-site")

\* The registration answered 2xx with a JSON object whose id is absent, null
\* or the empty string.
ObjectWithoutId(r) ==
    /\ HttpSuccess(r)
    /\ IsObj(r.json.ok)
    /\ Get(r.json.ok, "id") \in {Undef, Null, Str("")}

\* The registration answered 2xx with the JSON value null.
NullBody(r) == HttpSuccess(r) /\ r.json.ok = Null

\* The invocation stopped after its one call, with a failure.
FailedAfterRegister(slot) ==
    /\ slot.pc = "done"
    /\ Len(slot.calls) = 1
    /\ Len(slot.replies) = 1
    /\ Get(slot.result, "success") = Bool(FALSE)
    /\ IsStr(Get(slot.result, "error"))

SaysNoScriptId(result) ==
    Contains(Get(result, "error").str, "no script ID returned",
             {"Failed to register script: "}, {""})

\* C6 as stated: whenever the Register call succeeded with a body that carries
\* no script identifier, the invocation has failed after exactly one call with
\* an error saying that no script ID was returned.
C6_AsStated ==
    \A s \in AddCustomCodeSlots :
        ( /\ Len(inv[s].replies) >= 1
          /\ ObjectWithoutId(inv[s].replies[1]) \/ NullBody(inv[s].replies[1]) ) =>
            /\ FailedAfterRegister(inv[s])
            /\ SaysNoScriptId(inv[s].result)

\* C6: whenever the Register call succeeded with a JSON object whose id is
\* absent, null or empty, the invocation has failed after exactly one call with
\* an error saying that no script ID was returned; whenever it succeeded with
\* the body null, the invocation has failed after exactly one call as well, but
\* its error is the TypeError's message.
C6_NoScriptId ==
    \A s \in AddCustomCodeSlots :
        /\ (Len(inv[s].replies) >= 1 /\ ObjectWithoutId(inv[s].replies[1])) =>
              /\ FailedAfterRegister(inv[s])
              /\ SaysNoScriptId(inv[s].result)
        /\ (Len(inv[s].replies) >= 1 /\ NullBody(inv[s].replies[1])) =>
              /\ FailedAfterRegister(inv[s])
              /\ Get(inv[s].result, "error")
                    = Str("Cannot read properties of null (reading 'id')")

\* The registration answered 200 with {}: one call made, none pending.
C6_Witness ==
    \E s \in AddCustomCodeSlots :
        /\ inv[s].pc = "done"
        /\ Len(inv[s].replies) = 1
        /\ HttpSuccess(inv[s].replies[1])
        /\ inv[s].replies[1].json.ok = Obj(<<>>)
        /\ Len(inv[s].calls) = 1
        /\ SaysNoScriptId(inv[s].result)

\* A publishSite invocation that issued its request.
PublishCalls == {s \in DOMAIN inv : inv[s].tool = "publishSite" /\ Len(inv[s].calls) >= 1}

\* C7: the body of every publish request has the key publishToWebflowSubdomain
\* with a boolean value: the caller's when the caller gave one, false otherwise.
C7_SubdomainFlag ==
    \A s \in PublishCalls :
        LET body  == inv[s].calls[1].body
            given == Get(inv[s].args, "publishToWebflowSubdomain")
        IN  /\ Len(inv[s].calls) = 1
            /\ inv[s].calls[1].method = "POST"
            /\ IsObj(body)
            /\ "publishToWebflowSubdomain" \in DOMAIN body.obj
            /\ body.obj["publishToWebflowSubdomain"] \in {Bool(TRUE), Bool(FALSE)}
            /\ body.obj["publishToWebflowSubdomain"]
                  = (IF given = Undef THEN Bool(FALSE) ELSE given)

\* A publish request issued for a caller that left the flag out.
C7_Witness ==
    \E s \in PublishCalls :
        /\ Get(inv[s].args, "publishToWebflowSubdomain") = Undef
        /\ inv[s].calls[1].body.obj["publishToWebflowSubdomain"] = Bool(FALSE)

\* C8: the body of a publish request has the key customDomains exactly when
\* the caller gave a list with at least one element, and then its value is
\* that list; for no list or an empty list the key is absent.
C8_CustomDomains ==
    \A s \in PublishCalls :
        LET body  == inv[s].calls[1].body
            given == Get(inv[s].args, "customDomains")
        IN  /\ IsObj(body)
            /\ "customDomains" \in DOMAIN body.obj
                  <=> (IsArr(given) /\ Len(given.arr) > 0)
            /\ "customDomains" \in DOMAIN body.obj
                  => body.obj["customDomains"] = given

\* A publish request issued for a caller that passed customDomains: [].
C8_Witness ==
    \E s \in PublishCalls :
        /\ Get(inv[s].args, "customDomains") = Arr(<<>>)
        /\ "customDomains" \notin DOMAIN inv[s].calls[1].body.obj

\* The tools that address a site.
SiteTools == WebflowTools \ {"listSites"}

\* What follows /sites/{id} in the URL of a site tool's call.
SitePaths ==
    {"/publish", "/pages", "/forms", "/form_submissions", "/custom_code/blocks",
     "/registered_scripts/inline", "/custom_code"}

Queries ==
    {"", "?limit=10", "?offset=0", "?limit=10&offset=0", "?elementId=el-1",
     "?limit=25", "?elementId=el-1&limit=25"}

\* The call is addressed to the site `id`.
AddressedTo(call, id) ==
    Contains(call.url, "/sites/" \o id, {BASE_URL}, {p \o q : p \in SitePaths, q \in Queries})

\* The site an invocation must use, given its argument and the configured
\* default: the argument when a non-empty string, else the default when a
\* non-empty string, else none ("").
ExpectedSite(explicit, configured) ==
    IF IsStr(explicit) /\ explicit.str # "" THEN explicit.str
    ELSE IF IsStr(configured) /\ configured.str # "" THEN configured.str
    ELSE ""

\* C9: when a site tool is entered (and, for addCustomCode, passes its two
\* local gates), a non-empty siteId argument is the site its call is addressed
\* to; otherwise a non-empty WEBFLOW_SITE_ID is; with neither, the tool returns
\* its failure result with the site-ID configuration error and issues no call.
\* A call is also withheld when the API key is missing.  The Apply call of a
\* site-level addCustomCode goes to the site its Register call went to.
C9_SiteResolution ==
    [][\A s \in DOMAIN inv :
        /\ ( /\ inv[s].pc = "idle"
             /\ inv'[s].pc # "idle"
             /\ inv'[s].tool \in SiteTools
             /\ inv'[s].tool = "addCustomCode" =>
                   (PageIdGiven(inv'[s].args) /\ SourceLength(inv'[s].args) <= 2000) ) =>
              LET site == ExpectedSite(Get(inv'[s].args, "siteId"), env.WEBFLOW_SITE_ID)
              IN  IF site = ""
                  THEN /\ inv'[s].pc = "done"
                       /\ inv'[s].calls = <<>>
                       /\ FailureShape(inv'[s].tool, inv'[s].result)
                       /\ Contains(Get(inv'[s].result, "error").str,
                                   "site ID is required", {"A "},
                                   {". Either pass a siteId or set the WEBFLOW_SITE_ID environment variable."})
                  ELSE \/ /\ Len(inv'[s].calls) = 1
                          /\ AddressedTo(inv'[s].calls[1], site)
                       \/ /\ ~Truthy(env.WEBFLOW_API_KEY)
                          /\ StoppedByConfiguration(inv'[s])
        /\ ( /\ inv'[s].tool = "addCustomCode"
             /\ Len(inv'[s].calls) = 2
             /\ Get(inv'[s].args, "target") = Str("site") ) =>
              \E id \in {"site-1", "env-site"} :
                  /\ AddressedTo(inv'[s].calls[1], id)
                  /\ AddressedTo(inv'[s].calls[2], id)
      ]_vars

\* publishSite entered with siteId "" while WEBFLOW_SITE_ID is set: the request
\* goes to the configured site.
C9_Witness ==
    \E s \in DOMAIN inv :
        /\ inv[s].pc = "await"
        /\ inv[s].tool = "publishSite"
        /\ Get(inv[s].args, "siteId") = Str("")
        /\ env.WEBFLOW_SITE_ID = Str("env-site")
        /\ inv[s].calls[1].url = BASE_URL \o "/sites/env-site/publish"

-----------------------------------------------------------------------------
(* getStringField on its own: one application to each object of a family   *)
(* that puts every kind of value under either key.                         *)

Absent == [absent |-> TRUE]

\* What an upstream payload can hold under a key.
FieldValues ==
    { Absent, Undef, Null, Str(""), Str("2025-01-01"), Str("0"), Num(0), Num(7),
      Bool(FALSE), Bool(TRUE), Arr(<<>>), Obj(<<>>) }

\* { created_at: a, createdAt: b, id: "x" }, without the keys that are Absent.
FieldObject(a, b) ==
    Obj([k \in {"id"} \cup (IF a = Absent THEN {} ELSE {"created_at"})
                      \cup (IF b = Absent THEN {} ELSE {"createdAt"}) |->
            IF k = "id" THEN Str("x") ELSE IF k = "created_at" THEN a ELSE b])

FieldInit ==
    /\ env \in {e \in EnvValues : \A k \in DOMAIN e : e[k] = Undef}
    /\ inv = [s \in Slots |-> Idle]
    /\ \E a \in FieldValues, b \in FieldValues :
          probe = [fn |-> "pending", snake |-> a, camel |-> b, obj |-> FieldObject(a, b)]

\* getStringField(obj, "created_at", "createdAt")
GetStringField ==
    /\ probe.fn = "pending"
    /\ probe' = [fn |-> "getStringField", snake |-> probe.snake, camel |-> probe.camel,
                 obj |-> probe.obj,
                 out |-> getStringField(probe.obj, "created_at", "createdAt")]
    /\ UNCHANGED <<env, inv>>

SpecField == FieldInit /\ [][GetStringField]_vars

\* The values that count as missing: absent, undefined, null, "", 0, false.
Falsy(v) == v \in {Absent, Undef, Null, Str(""), Num(0), Bool(FALSE)}

\* String(v) for the truthy values of FieldValues.
Stringified(v) ==
    CASE v = Str("2025-01-01") -> Str("2025-01-01")
      [] v = Str("0") -> Str("0")
      [] v = Num(7) -> Str("7")
      [] v = Bool(TRUE) -> Str("true")
      [] v = Arr(<<>>) -> Str("")
      [] v = Obj(<<>>) -> Str("[object Object]")

\* C10: getStringField returns the snake_case value as a string when it is
\* truthy (also when the camelCase value is truthy too); otherwise the
\* camelCase value as a string when that is truthy; otherwise undefined,
\* without throwing, in particular when neither key is present.
C10_GetStringField ==
    probe.fn = "getStringField" =>
        /\ ~Falsy(probe.snake) => probe.out = Stringified(probe.snake)
        /\ (Falsy(probe.snake) /\ ~Falsy(probe.camel)) =>
              probe.out = Stringified(probe.camel)
        /\ (Falsy(probe.snake) /\ Falsy(probe.camel)) => probe.out = Undef

\* Both keys hold truthy values that differ: the snake_case one was returned.
C10_Witness ==
    /\ probe.fn = "getStringField"
    /\ probe.snake = Str("2025-01-01")
    /\ probe.camel = Num(7)
    /\ probe.out = Str("2025-01-01")

-----------------------------------------------------------------------------
(* Counts.                                                                 *)

CountedTools == ListTools \cup {"sendBatchEmails"}

\* The field of a counted tool's result that holds its sequence.
SequenceField(tool) == IF tool = "sendBatchEmails" THEN "ids" ELSE Collection(tool)

\* A counted tool's result that reports no failure.
CountedSuccess(tool, result) ==
    IF tool = "sendBatchEmails" THEN Get(result, "success") = Bool(TRUE)
    ELSE Get(result, "error") = Undef

\* The records the upstream returned in the reply a counted tool received.
UpstreamRecords(tool, reply) ==
    IF tool \in WebflowTools THEN RawItems(reply.json.ok, Collection(tool))
    ELSE IF IsNullish(reply.data) THEN <<>>
    ELSE RawItems(reply.data, "data")

\* C11: in every result a list tool or sendBatchEmails returns, failure or
\* success, count is the length of the returned sequence; on success that
\* length is the number of records the upstream returned.
C11_CountIsLength ==
    \A s \in DOMAIN inv :
        (inv[s].pc = "done" /\ inv[s].tool \in CountedTools) =>
            LET result == inv[s].result
                seq    == Get(result, SequenceField(inv[s].tool))
            IN  /\ IsArr(seq)
                /\ Get(result, "count") = Num(Len(seq.arr))
                /\ CountedSuccess(inv[s].tool, result) =>
                      /\ Len(inv[s].replies) = 1
                      /\ Len(seq.arr) =
                            Len(UpstreamRecords(inv[s].tool, inv[s].replies[1]))

\* listSites answered with two sites: two projections and count 2.
C11_Witness ==
    \E s \in DOMAIN inv :
        /\ inv[s].pc = "done"
        /\ inv[s].tool = "listSites"
        /\ Get(inv[s].result, "error") = Undef
        /\ Len(UpstreamRecords("listSites", inv[s].replies[1])) = 2
        /\ Get(inv[s].result, "count") = Num(2)

-----------------------------------------------------------------------------
(* Pagination.                                                             *)

PagedTools == {"listPages", "listForms", "listFormSubmissions", "listCustomCode"}

PaginationKeys == {"limit", "offset", "total"}

\* typeof v === "number"
IsNumber(v) == IsNum(v) \/ v = NaN

\* C12: when listPages, listForms, listFormSubmissions or listCustomCode
\* succeeds on a response without a pagination object, the result's pagination
\* reads as undefined, not as an empty object; when the response has one, the
\* result's pagination is an object with exactly limit, offset and total, each
\* a number, equal to the upstream number where the upstream sent a number.
C12_PaginationEcho ==
    \A s \in DOMAIN inv :
        (inv[s].pc = "done" /\ inv[s].tool \in PagedTools
            /\ Get(inv[s].result, "error") = Undef) =>
            LET upstream == Get(inv[s].replies[1].json.ok, "pagination")
                echoed   == Get(inv[s].result, "pagination")
            IN  /\ IsNullish(upstream) => echoed = Undef
                /\ IsObj(upstream) =>
                      /\ IsObj(echoed)
                      /\ DOMAIN echoed.obj = PaginationKeys
                      /\ \A k \in PaginationKeys :
                            /\ IsNumber(echoed.obj[k])
                            /\ IsNum(Get(upstream, k)) => echoed.obj[k] = Get(upstream, k)
                            /\ IsNullish(Get(upstream, k)) => echoed.obj[k] = Num(0)

\* listPages answered with pagination { limit: 10, offset: 0, total: "1" }:
\* the result echoes { limit: 10, offset: 0, total: 1 }.
C12_Witness ==
    \E s \in DOMAIN inv :
        /\ inv[s].pc = "done"
        /\ inv[s].tool = "listPages"
        /\ Get(inv[s].result, "error") = Undef
        /\ Get(inv[s].replies[1].json.ok, "pagination")
              = Obj([limit |-> Num(10), offset |-> Num(0), total |-> Str("1")])
        /\ Get(inv[s].result, "pagination")
              = Obj([limit |-> Num(10), offset |-> Num(0), total |-> Num(1)])

-----------------------------------------------------------------------------
(* Output records.                                                         *)

\* The output schemas of the Webflow module: per kind of record, the fields
\* declared without .optional() and those declared with it.
WebflowSchema(kind) ==
    CASE kind = "site" ->
            [ required |-> {"id", "displayName", "shortName"},
              optional |-> {"lastPublished", "lastUpdated", "previewUrl", "timeZone",
                            "customDomains"} ]
      [] kind = "domain" -> [ required |-> {"id", "url"}, optional |-> {} ]
      [] kind = "publish" -> [ required |-> {"success"}, optional |-> {"publishedDomains"} ]
      [] kind = "page" ->
            [ required |-> {"id", "title", "slug"},
              optional |-> {"archived", "draft", "createdOn", "lastUpdated",
                            "publishedPath", "seo"} ]
      [] kind = "seo" -> [ required |-> {}, optional |-> {"title", "description"} ]
      [] kind = "form" ->
            [ required |-> {"id", "displayName"},
              optional |-> {"pageId", "pageName", "formElementId", "fields",
                            "createdOn", "lastUpdated"} ]
      [] kind = "formField" -> [ required |-> {}, optional |-> {"displayName", "type"} ]
      [] kind = "submission" ->
            [ required |-> {"id"},
              optional |-> {"displayName", "dateSubmitted", "formResponse"} ]
      [] kind = "block" ->
            [ required |-> {"siteId", "scripts"},
              optional |-> {"pageId", "type", "createdOn", "lastUpdated"} ]
      [] kind = "script" -> [ required |-> {"id", "location", "version"}, optional |-> {} ]

\* The output schemas of the Resend module.
ResendSchema(kind) ==
    CASE kind = "email" ->
            [ required |-> {"id", "from", "to", "subject"},
              optional |-> {"lastEvent", "createdAt"} ]
      [] kind = "getEmail" ->
            [ required |-> {"success", "id"},
              optional |-> {"from", "to", "subject", "lastEvent", "createdAt"} ]
      [] kind = "contact" ->
            [ required |-> {"id", "email", "unsubscribed"},
              optional |-> {"firstName", "lastName"} ]
      [] kind = "template" ->
            [ required |-> {"id", "name", "status"},
              optional |-> {"alias", "createdAt", "updatedAt", "publishedAt"} ]
      [] kind = "templateList" ->
            [ required |-> {"templates", "count"}, optional |-> {"hasMore"} ]
      [] kind = "getTemplate" ->
            [ required |-> {"success", "id"},
              optional |-> {"name", "alias", "status", "from", "subject", "replyTo",
                            "variables", "createdAt", "updatedAt", "publishedAt"} ]
      [] kind = "variable" ->
            [ required |-> {"id", "key", "type"}, optional |-> {"fallbackValue"} ]

WebflowKinds ==
    { "site", "domain", "publish", "page", "seo", "form", "formField", "submission",
      "block", "script" }

Schema(kind) == IF kind \in WebflowKinds THEN WebflowSchema(kind) ELSE ResendSchema(kind)

\* The upstream keys the projection reads for an output field.
UpstreamKeys(field) ==
    CASE field = "lastPublished" -> {"last_published", "lastPublished"}
      [] field = "lastUpdated" -> {"last_updated", "lastUpdated"}
      [] field = "createdOn" -> {"created_on", "createdOn"}
      [] field = "formElementId" -> {"form_element_id", "formElementId"}
      [] field = "dateSubmitted" -> {"date_submitted", "dateSubmitted"}
      [] field = "lastEvent" -> {"last_event", "lastEvent"}
      [] field = "createdAt" -> {"created_at", "createdAt"}
      [] field = "updatedAt" -> {"updated_at", "updatedAt"}
      [] field = "publishedAt" -> {"published_at", "publishedAt"}
      [] field = "firstName" -> {"first_name", "firstName"}
      [] field = "lastName" -> {"last_name", "lastName"}
      [] field = "replyTo" -> {"reply_to", "replyTo"}
      [] field = "fallbackValue" -> {"fallback_value", "fallbackValue"}
      [] field = "hasMore" -> {"has_more"}
      [] field = "publishedDomains" -> {"customDomains"}
      [] OTHER -> {field}

\* The optional fields the projections fill with a default instead of leaving
\* them out: formResponse ?? {}, String(email.from ?? ""), toStringArray(to),
\* getStringField(...) ?? "", Boolean(result.has_more ?? false).
DefaultedFields(kind) ==
    CASE kind = "submission" -> {"formResponse"}
      [] kind = "email" -> {"lastEvent", "createdAt"}
      [] kind = "getEmail" -> {"from", "to", "subject", "lastEvent", "createdAt"}
      [] kind = "templateList" -> {"hasMore"}
      [] OTHER -> {}

\* An upstream record beside the output record made from it.
Pair(kind, up, out) == [kind |-> kind, up |-> up, out |-> out]

\* The kind of the records in a list tool's collection.
ItemKind(tool) ==
    CASE tool = "listSites" -> "site"
      [] tool = "listPages" -> "page"
      [] tool = "listForms" -> "form"
      [] tool = "listFormSubmissions" -> "submission"
      [] tool = "listCustomCode" -> "block"
      [] tool = "listEmails" -> "email"
      [] tool = "listContacts" -> "contact"
      [] tool = "listTemplates" -> "template"

\* The records in the result of a tool that succeeded on its one call.
TopPairs(slot) ==
    LET tool == slot.tool
        up   == IF tool \in WebflowTools THEN slot.replies[1].json.ok
                ELSE slot.replies[1].data
        out  == slot.result
    IN  (IF tool \in ListTools
         THEN {Pair(ItemKind(tool), UpstreamRecords(tool, slot.replies[1])[i],
                    Get(out, Collection(tool)).arr[i]) :
                  i \in 1..Len(Get(out, Collection(tool)).arr)}
         ELSE {})
        \cup (IF tool = "listTemplates" THEN {Pair("templateList", up, out)} ELSE {})
        \cup (IF tool = "publishSite" THEN {Pair("publish", up, out)} ELSE {})
        \cup (IF tool = "getEmail" THEN {Pair("getEmail", up, out)} ELSE {})
        \cup (IF tool = "getTemplate" THEN {Pair("getTemplate", up, out)} ELSE {})

\* The records nested in an output record: the elements of an array field,
\* the object of an object field, the values of a keyed field.
Nested(kind) ==
    CASE kind = "site" -> {[field |-> "customDomains", kind |-> "domain", shape |-> "array"]}
      [] kind = "publish" ->
            {[field |-> "publishedDomains", kind |-> "domain", shape |-> "array"]}
      [] kind = "page" -> {[field |-> "seo", kind |-> "seo", shape |-> "object"]}
      [] kind = "form" -> {[field |-> "fields", kind |-> "formField", shape |-> "keyed"]}
      [] kind = "block" -> {[field |-> "scripts", kind |-> "script", shape |-> "array"]}
      [] kind = "getTemplate" ->
            {[field |-> "variables", kind |-> "variable", shape |-> "array"]}
      [] OTHER -> {}

ChildPairs(p) ==
    UNION { LET up  == Get(p.up, CHOOSE k \in UpstreamKeys(n.field) : TRUE)
                out == Get(p.out, n.field)
            IN  IF out = Undef THEN {}
                ELSE IF n.shape = "array"
                     THEN {Pair(n.kind, up.arr[i], out.arr[i]) : i \in 1..Len(out.arr)}
                ELSE IF n.shape = "object" THEN {Pair(n.kind, up, out)}
                ELSE {Pair(n.kind, up.obj[k], out.obj[k]) : k \in DOMAIN out.obj}
          : n \in Nested(p.kind) }

\* Every output record of a finished, successful invocation.
OutputPairs ==
    UNION { IF inv[s].pc = "done" /\ inv[s].tool \notin {"none", "addCustomCode"}
               /\ Len(inv[s].replies) = 1
               /\ Get(inv[s].result, "error") = Undef
            THEN TopPairs(inv[s]) \cup UNION {ChildPairs(p) : p \in TopPairs(inv[s])}
            ELSE {}
          : s \in DOMAIN inv }

Populated(p, fields) == \A f \in fields : ~IsNullish(Get(p.out, f))

OnlyWhenTruthy(p, fields) ==
    \A f \in fields :
        Get(p.out, f) # Undef => \E k \in UpstreamKeys(f) : Truthy(Get(p.up, k))

-----------------------------------------------------------------------------
(* Approval.                                                               *)

AllTools == WebflowTools \cup ResendTools

\* Nothing configured or passed stops the tool before its first remote call.
CanCall(tool, e, args) ==
    IF tool \in ResendTools THEN Truthy(e.RESEND_API_KEY)
    ELSE /\ Truthy(e.WEBFLOW_API_KEY)
         /\ tool # "listSites" => ExpectedSite(Get(args, "siteId"), e.WEBFLOW_SITE_ID) # ""
         /\ tool = "addCustomCode" => (PageIdGiven(args) /\ SourceLength(args) <= 2000)

\* C14: needsApproval is true for publishSite, addCustomCode and removeContact
\* and for no other tool; and a tool flagged so, entered with its configuration
\* in place, issues its remote call all the same: nothing in the handler waits
\* for an approval.
C14_ApprovalFlag ==
    /\ [](\A tool \in AllTools :
            needsApproval(tool) = Bool(TRUE)
                <=> tool \in {"publishSite", "addCustomCode", "removeContact"})
    /\ [][\A s \in DOMAIN inv :
            ( /\ inv[s].pc = "idle"
              /\ inv'[s].pc # "idle"
              /\ needsApproval(inv'[s].tool) = Bool(TRUE)
              /\ CanCall(inv'[s].tool, env, inv'[s].args) ) =>
                 /\ inv'[s].pc \in {"await", "awaitRegister"}
                 /\ Len(inv'[s].calls) = 1]_vars

\* removeContact, flagged as needing approval, has issued contacts.remove.
C14_Witness ==
    \E s \in DOMAIN inv :
        /\ inv[s].tool = "removeContact"
        /\ needsApproval(inv[s].tool) = Bool(TRUE)
        /\ inv[s].pc = "await"
        /\ Len(inv[s].calls) = 1
        /\ inv[s].calls[1].api = "contacts.remove"

-----------------------------------------------------------------------------
(* Missing API key.                                                        *)

\* The API key the tool's platform reads is unset (or empty).
KeyUnset(tool, e) ==
    IF tool \in WebflowTools THEN ~Truthy(e.WEBFLOW_API_KEY)
    ELSE ~Truthy(e.RESEND_API_KEY)

\* The configuration errors of the tool's platform: a missing credential, or a
\* missing resolvable identifier.
ConfigurationErrors(tool) ==
    IF tool \in WebflowTools THEN {Str(ApiKeyRequired), Str(SiteIdRequired)}
    ELSE {Str(ResendKeyRequired)}

\* The slot holds a failure result returned without any call having been issued.
FailedWithoutCall(slot) ==
    /\ slot.pc = "done"
    /\ slot.calls = <<>>
    /\ FailureShape(slot.tool, slot.result)

\* C15 as stated: a tool entered while its platform's API key is unset returns
\* a failure result carrying a configuration error, with no call issued.
C15_AsStated ==
    [][\A s \in DOMAIN inv :
          (inv[s].pc = "idle" /\ inv'[s].pc # "idle" /\ KeyUnset(inv'[s].tool, env)) =>
              /\ FailedWithoutCall(inv'[s])
              /\ Get(inv'[s].result, "error") \in ConfigurationErrors(inv'[s].tool)]_vars

\* C15: a tool entered while its platform's API key is unset returns a failure
\* result with no call issued; the failure carries a configuration error,
\* except that addCustomCode reports its pageId or length gate's error when the
\* input fails that gate.  The key is read when the tool is entered: the module
\* loads, and the tool can be entered, with the key unset.
C15_MissingApiKey ==
    [][\A s \in DOMAIN inv :
          (inv[s].pc = "idle" /\ inv'[s].pc # "idle" /\ KeyUnset(inv'[s].tool, env)) =>
              /\ FailedWithoutCall(inv'[s])
              /\ Get(inv'[s].result, "error") \in
                    IF inv'[s].tool = "addCustomCode" /\ ~PageIdGiven(inv'[s].args)
                    THEN {Str(PageIdRequired)}
                    ELSE IF inv'[s].tool = "addCustomCode"
                            /\ SourceLength(inv'[s].args) > 2000
                    THEN {Str(ScriptTooLong(Get(inv'[s].args, "sourceCode")))}
                    ELSE ConfigurationErrors(inv'[s].tool)]_vars

\* sendEmail entered with RESEND_API_KEY unset: it has returned the
\* configuration error and called nothing.
C15_Witness ==
    \E s \in DOMAIN inv :
        /\ inv[s].tool = "sendEmail"
        /\ KeyUnset("sendEmail", env)
        /\ FailedWithoutCall(inv[s])
        /\ Get(inv[s].result, "error") = Str(ResendKeyRequired)

-----------------------------------------------------------------------------
(* Batches.                                                                *)

\* The emails submitted in a sendBatchEmails invocation.
Submitted(slot) == Len(Get(slot.args, "emails").arr)

\* C16: a finished sendBatchEmails invocation either reports success: true
\* with one id per submitted email and count equal to the number submitted, or
\* reports success: false with ids empty and count 0; and a reply that carries
\* an error is reported as the failure, whatever data came beside it.
C16_AllOrNothing ==
    \A s \in DOMAIN inv :
        (inv[s].pc = "done" /\ inv[s].tool = "sendBatchEmails") =>
            LET result == inv[s].result
            IN  /\ IF Get(result, "success") = Bool(TRUE)
                   THEN /\ IsArr(Get(result, "ids"))
                        /\ Len(Get(result, "ids").arr) = Submitted(inv[s])
                        /\ Get(result, "count") = Num(Submitted(inv[s]))
                   ELSE /\ Get(result, "success") = Bool(FALSE)
                        /\ Get(result, "ids") = Arr(<<>>)
                        /\ Get(result, "count") = Num(0)
                /\ ( /\ Len(inv[s].replies) = 1
                     /\ "error" \in DOMAIN inv[s].replies[1]
                     /\ Truthy(inv[s].replies[1].error) ) =>
                        Get(result, "success") = Bool(FALSE)

-----------------------------------------------------------------------------
(* listSites.                                                              *)

\* An upstream domain entry of the documented shape: { id, url }, both strings.
PlainDomain(d) ==
    IsObj(d) /\ DOMAIN d.obj = {"id", "url"} /\ IsStr(d.obj.id) /\ IsStr(d.obj.url)

\* C17: a successful listSites returns one projection per upstream site in
\* upstream order; a site without upstream customDomains has none in its
\* projection; a site with them has as many, in the same order, and every
\* upstream entry { id, url } appears unmodified at its position.
C17_CustomDomains ==
    \A s \in DOMAIN inv :
        (inv[s].pc = "done" /\ inv[s].tool = "listSites"
            /\ Get(inv[s].result, "error") = Undef) =>
            LET raw   == UpstreamRecords("listSites", inv[s].replies[1])
                sites == Get(inv[s].result, "sites").arr
            IN  /\ Len(sites) = Len(raw)
                /\ Get(inv[s].result, "count") = Num(Len(raw))
                /\ \A i \in 1..Len(raw) :
                      LET upstream == Get(raw[i], "customDomains")
                          domains  == Get(sites[i], "customDomains")
                      IN  /\ IsStr(Get(raw[i], "id")) => Get(sites[i], "id") = Get(raw[i], "id")
                          /\ IsNullish(upstream) => domains = Undef
                          /\ ~IsNullish(upstream) =>
                                /\ IsArr(domains)
                                /\ Len(domains.arr) = Len(upstream.arr)
                                /\ \A j \in 1..Len(upstream.arr) :
                                      PlainDomain(upstream.arr[j]) =>
                                          domains.arr[j] = upstream.arr[j]

\* One site with customDomains [{ id: "dom-1", url: "example.com" }]: count 1
\* and that same array.
C17_Witness ==
    \E s \in DOMAIN inv :
        /\ inv[s].pc = "done"
        /\ inv[s].tool = "listSites"
        /\ Get(inv[s].result, "count") = Num(1)
        /\ Get(Get(inv[s].result, "sites").arr[1], "customDomains")
              = Arr(<<Obj([id |-> Str("dom-1"), url |-> Str("example.com")])>>)
        /\ Get(UpstreamRecords("listSites", inv[s].replies[1])[1], "customDomains")
              = Arr(<<Obj([id |-> Str("dom-1"), url |-> Str("example.com")])>>)

-----------------------------------------------------------------------------
(* Nothing escapes.                                                        *)

\* The outcome of the last remote call the invocation heard.
LastReply(slot) == slot.replies[Len(slot.replies)]

Rejected(r) == "reject" \in DOMAIN r

\* A 2xx response whose JSON body is null.
NullJson(r) == HttpSuccess(r) /\ r.json.ok = Null

\* A reply whose collection for the list tool is no array, or holds null.
WrongShape(tool, r) ==
    LET body == IF tool \in WebflowTools
                THEN (IF HttpSuccess(r) THEN r.json.ok ELSE Undef)
                ELSE (IF "data" \in DOMAIN r /\ ~Truthy(r.error) THEN r.data ELSE Undef)
        held == Get(body, IF tool \in WebflowTools THEN Collection(tool) ELSE "data")
    IN  /\ tool \in ListTools
        /\ ~IsNullish(held)
        /\ (~IsArr(held) \/ \E i \in 1..Len(held.arr) : IsNullish(held.arr[i]))

\* An SDK result carrying neither data nor error.
NeitherDataNorError(r) ==
    "data" \in DOMAIN r /\ IsNullish(r.data) /\ ~Truthy(r.error)

\* The result is the tool's failure result, or addCustomCode's.
FailureResult(tool, result) ==
    IF tool = "addCustomCode"
    THEN Get(result, "success") = Bool(FALSE) /\ IsStr(Get(result, "error"))
    ELSE FailureShape(tool, result)

\* The tools that go on without reading anything of the data they were given.
ToleratesNoData == {"sendEmail", "sendBatchEmails", "listEmails", "listContacts"}

\* C18 as stated: every finished invocation has returned a result; after a
\* rejected call, a null JSON body, a collection of the wrong shape, or an SDK
\* result with neither data nor error, that result is the failure result; and
\* after a thrown value that is no Error its error is the fallback message.
C18_AsStated ==
    \A s \in DOMAIN inv :
        (inv[s].pc = "done" /\ inv[s].replies # <<>>) =>
            LET tool == inv[s].tool
                r    == LastReply(inv[s])
            IN  /\ IsObj(inv[s].result)
                /\ ( \/ Rejected(r)
                     \/ NullJson(r)
                     \/ WrongShape(tool, r)
                     \/ NeitherDataNorError(r) ) => FailureResult(tool, inv[s].result)
                /\ (Rejected(r) /\ ~IsError(r.reject)) =>
                      Get(inv[s].result, "error") = Str(Fallback(tool))

\* C18: every finished invocation has returned a result, never a thrown value.
\* After a rejected call or a collection of the wrong shape that result is the
\* failure result; so it is after a null JSON body, except for the Apply call
\* of addCustomCode, whose body is not read; so it is after an SDK result with
\* neither data nor error, except for sendEmail, sendBatchEmails, listEmails
\* and listContacts, which return a success with an empty id or collection.
\* After a thrown value that is no Error the error is the fallback message.
C18_NothingEscapes ==
    \A s \in DOMAIN inv :
        inv[s].pc = "done" =>
            LET tool == inv[s].tool
            IN  /\ IsObj(inv[s].result)
                /\ inv[s].replies # <<>> =>
                      LET r == LastReply(inv[s])
                      IN  /\ (Rejected(r) \/ WrongShape(tool, r)) =>
                                FailureResult(tool, inv[s].result)
                          /\ NullJson(r) =>
                                IF tool = "addCustomCode" /\ Len(inv[s].replies) = 2
                                THEN Get(inv[s].result, "success") = Bool(TRUE)
                                ELSE FailureResult(tool, inv[s].result)
                          /\ NeitherDataNorError(r) =>
                                IF tool \in ToleratesNoData
                                THEN Get(inv[s].result, "error") = Undef
                                ELSE FailureResult(tool, inv[s].result)
                          /\ (Rejected(r) /\ ~IsError(r.reject)) =>
                                Get(inv[s].result, "error") = Str(Fallback(tool))

\* createContact's SDK call threw the string "timeout": the handler returned
\* success: false with its fallback message.
C18_Witness ==
    \E s \in DOMAIN inv :
        /\ inv[s].pc = "done"
        /\ inv[s].tool = "createContact"
        /\ inv[s].replies = <<[reject |-> Str("timeout")]>>
        /\ Get(inv[s].result, "success") = Bool(FALSE)
        /\ Get(inv[s].result, "error") = Str("Failed to create contact")

-----------------------------------------------------------------------------
(* Logging.                                                                *)

\* C19: every finished invocation whose result reports a failure (an error
\* string) has written an entry under the tool's label to console.error by the
\* time the result is returned, whether the failure came from a thrown error,
\* from an error object the SDK returned, or from a local validation gate of
\* addCustomCode.
C19_FailuresLogged ==
    \A s \in DOMAIN inv :
        (inv[s].pc = "done" /\ Get(inv[s].result, "error") # Undef) =>
            /\ Len(inv[s].console) = 1
            /\ inv[s].console[1][1] = Label(inv[s].tool)

-----------------------------------------------------------------------------
(* The stages of addCustomCode.                                            *)

\* addCustomCode alone, with every remote call eventually answered: a call
\* that is awaited eventually responds or fails.
NextAddCustomCode ==
    \/ \E s \in DOMAIN inv : AddCustomCode(s)
    \/ \E s \in DOMAIN inv : AddCustomCodeRegisterSettled(s)
    \/ \E s \in DOMAIN inv : AddCustomCodeApplySettled(s)
    \/ \E s \in DOMAIN inv : TakeResult(s)
    \/ SetEnv

SpecAddCustomCode ==
    /\ Init
    /\ [][NextAddCustomCode]_vars
    /\ \A s \in Slots : WF_vars(AddCustomCodeRegisterSettled(s))
    /\ \A s \in Slots : WF_vars(AddCustomCodeApplySettled(s))

\* The stage an invocation is in.  Validate has no state of its own: the gates
\* run, and the Register call is issued, in the step that enters the handler.
Stage(slot) ==
    CASE slot.pc = "idle" -> "Idle"
      [] slot.pc = "awaitRegister" -> "Register"
      [] slot.pc = "awaitApply" -> "Apply"
      [] slot.pc = "done" /\ Get(slot.result, "success") = Bool(TRUE) -> "Done"
      [] slot.pc = "done" /\ Get(slot.result, "success") = Bool(FALSE) -> "Failed"
      [] OTHER -> "Unknown"

\* The moves the stages allow; from Done and Failed the slot is only freed.
StageMoves ==
    { <<"Idle", "Register">>, <<"Idle", "Failed">>,
      <<"Register", "Apply">>, <<"Register", "Failed">>,
      <<"Apply", "Done">>, <<"Apply", "Failed">>,
      <<"Done", "Idle">>, <<"Failed", "Idle">> }

\* The calls issued so far are those of the stages passed, each once.
StageCalls(slot) ==
    CASE Stage(slot) = "Register" ->
            Len(slot.calls) = 1 /\ IsRegisterCall(slot.calls[1])
      [] Stage(slot) \in {"Apply", "Done"} ->
            /\ Len(slot.calls) = 2
            /\ IsRegisterCall(slot.calls[1])
            /\ slot.calls[2].method = "PUT"
      [] OTHER -> Len(slot.calls) <= 2

\* C20: an addCustomCode invocation moves only Validate/Register, Apply, Done
\* in that order, each stage once, leaving the path only to Failed; and, every
\* remote call being answered eventually, an invocation that is waiting for
\* Register or Apply eventually ends in Done (success: true) or Failed
\* (success: false).
C20_Stages ==
    /\ [][\A s \in DOMAIN inv :
            /\ Stage(inv'[s]) # "Unknown"
            /\ StageCalls(inv'[s])
            /\ inv'[s] # inv[s] => <<Stage(inv[s]), Stage(inv'[s])>> \in StageMoves]_vars
    /\ \A s \in Slots :
            (Stage(inv[s]) \in {"Register", "Apply"})
                ~> (Stage(inv[s]) \in {"Done", "Failed"})

\* An invocation went through Register and Apply and ended in Done.
C20_Witness ==
    \E s \in DOMAIN inv :
        /\ Stage(inv[s]) = "Done"
        /\ Len(inv[s].calls) = 2
        /\ Len(inv[s].replies) = 2
        /\ HttpSuccess(inv[s].replies[1])
        /\ HttpSuccess(inv[s].replies[2])

-----------------------------------------------------------------------------
(* The Apply request.                                                      *)

\* C21: whenever addCustomCode has issued its second request, the Register
\* call had been answered with success and an identifier; the request is a PUT
\* whose body is exactly { scripts: [{ id, location, version }] }, id being
\* that identifier as a string and location and version the caller's inputs;
\* it goes to /pages/<pageId>/custom_code when target is "page" and otherwise
\* to /sites/<id>/custom_code for the site the Register call was addressed to.
C21_ApplyRequest ==
    \A s \in AddCustomCodeSlots :
        Len(inv[s].calls) >= 2 =>
            LET args  == inv[s].args
                apply == inv[s].calls[2]
            IN  /\ Len(inv[s].calls) = 2
                /\ Len(inv[s].replies) >= 1
                /\ CarriesId(inv[s].replies[1])
                /\ IsRegisterCall(inv[s].calls[1])
                /\ apply.method = "PUT"
                /\ apply.body =
                      Obj([ scripts |-> Arr(<< Obj([
                          id       |-> Str(IdText(Get(inv[s].replies[1].json.ok, "id"))),
                          location |-> Get(args, "location"),
                          version  |-> Get(args, "version") ]) >>) ])
                /\ IF Get(args, "target") = Str("page")
                   THEN apply.url = BASE_URL \o "/pages/" \o Get(args, "pageId").str
                                        \o "/custom_code"
                   ELSE \E id \in {"site-1", "env-site"} :
                          /\ inv[s].calls[1].url
                                = BASE_URL \o "/sites/" \o id \o "/registered_scripts/inline"
                          /\ apply.url = BASE_URL \o "/sites/" \o id \o "/custom_code"

\* Register answered with the numeric id 42 for a page-level script: the
\* Apply request to the page carries id "42".
C21_Witness ==
    \E s \in AddCustomCodeSlots :
        /\ inv[s].pc = "awaitApply"
        /\ Get(inv[s].args, "target") = Str("page")
        /\ Get(inv[s].replies[1].json.ok, "id") = Num(42)
        /\ inv[s].calls[2].url = BASE_URL \o "/pages/page-1/custom_code"
        /\ Get(inv[s].calls[2].body, "scripts").arr[1].obj.id = Str("42")

-----------------------------------------------------------------------------
(* No rollback.                                                            *)

\* The message of the error callApi throws for a call that settled with r
\* without success; the catch block's fallback for a thrown value that is no
\* Error.
CallError(r) ==
    IF Rejected(r)
    THEN (IF IsError(r.reject) THEN r.reject.error ELSE "Failed to add custom code")
    ELSE IF HttpFailure(r)
         THEN "Webflow API error " \o ToString(r.status) \o ": " \o r.text
         ELSE r.json.thrown.error

\* C22: when Register succeeded with an identifier and the Apply call then
\* failed, the invocation has returned success: false with the Apply call's
\* error, and its requests are exactly the two, Register and Apply: nothing
\* was issued to undo the registration.
C22_NoRollback ==
    \A s \in AddCustomCodeSlots :
        ( /\ Len(inv[s].replies) = 2
          /\ CarriesId(inv[s].replies[1])
          /\ ~HttpSuccess(inv[s].replies[2]) ) =>
            /\ inv[s].pc = "done"
            /\ Get(inv[s].result, "success") = Bool(FALSE)
            /\ Get(inv[s].result, "error") = Str(CallError(inv[s].replies[2]))
            /\ Len(inv[s].calls) = 2
            /\ IsRegisterCall(inv[s].calls[1])
            /\ inv[s].calls[2].method = "PUT"

\* Register answered with script-123 and Apply with 429: the failure carries
\* the 429 and two requests were made.
C22_Witness ==
    \E s \in AddCustomCodeSlots :
        /\ inv[s].pc = "done"
        /\ Len(inv[s].replies) = 2
        /\ Get(inv[s].replies[1].json.ok, "id") = Str("script-123")
        /\ HttpFailure(inv[s].replies[2])
        /\ inv[s].replies[2].status = 429
        /\ Get(inv[s].result, "error")
              = Str("Webflow API error 429: {\"message\":\"Rate limited\"}")
        /\ Len(inv[s].calls) = 2

-----------------------------------------------------------------------------
(* No retries.                                                             *)

\* The remote call settled with r failed: rejected, answered outside 2xx or
\* with a body that does not parse, or resolved with an error object.
FailedReply(tool, r) ==
    IF tool \in WebflowTools THEN ~HttpSuccess(r)
    ELSE Rejected(r) \/ Truthy(r.error)

\* The most remote calls one invocation of the tool can make.
MostCalls(tool) == IF tool = "addCustomCode" THEN 2 ELSE 1

\* C23: an invocation never has more requests than one, or two for
\* addCustomCode (a Register, then an Apply); it never has more answers than
\* requests; and once a call has failed, it is the last request the invocation
\* made and the handler has returned.
C23_NoRetry ==
    \A s \in DOMAIN inv :
        inv[s].tool # "none" =>
            /\ Len(inv[s].calls) <= MostCalls(inv[s].tool)
            /\ Len(inv[s].replies) <= Len(inv[s].calls)
            /\ (inv[s].tool = "addCustomCode" /\ Len(inv[s].calls) >= 1) =>
                  IsRegisterCall(inv[s].calls[1])
            /\ (inv[s].tool = "addCustomCode" /\ Len(inv[s].calls) = 2) =>
                  /\ inv[s].calls[2].method = "PUT"
                  /\ ~IsRegisterCall(inv[s].calls[2])
            /\ \A i \in 1..Len(inv[s].replies) :
                  FailedReply(inv[s].tool, inv[s].replies[i]) =>
                      /\ Len(inv[s].calls) = i
                      /\ inv[s].pc = "done"

\* listPages' one request was rejected: the handler returned its failure and
\* the request was not repeated.
C23_Witness ==
    \E s \in DOMAIN inv :
        /\ inv[s].tool = "listPages"
        /\ inv[s].pc = "done"
        /\ Len(inv[s].replies) = 1
        /\ Rejected(inv[s].replies[1])
        /\ Len(inv[s].calls) = 1
        /\ Get(inv[s].result, "error") = Str("fetch failed")

-----------------------------------------------------------------------------
(* Configuration is read at call time.                                     *)

\* The request carries the API key k of its platform.
Authenticated(tool, call, k) ==
    /\ IsStr(k) /\ k.str # ""
    /\ IF tool \in WebflowTools
       THEN <<"Authorization", "Bearer " \o k.str>> \in call.headers
       ELSE call.key = k.str

\* The API key of the tool's platform in the environment e.
PlatformKey(tool, e) ==
    IF tool \in WebflowTools THEN e.WEBFLOW_API_KEY ELSE e.RESEND_API_KEY

\* C24: every request is authenticated with the API key the environment holds
\* at the step that issues it, whatever the environment held before; a step
\* that would issue a request while the key is unset issues none and returns
\* the failure; and a site tool entered without a siteId argument addresses the
\* site WEBFLOW_SITE_ID names at that step.
C24_EnvPerCall ==
    [][\A s \in DOMAIN inv :
          LET before == inv[s]
              after  == inv'[s]
          IN  /\ Len(after.calls) > Len(before.calls) =>
                    /\ Len(after.calls) = Len(before.calls) + 1 \/ before.pc = "done"
                    /\ Authenticated(after.tool, after.calls[Len(after.calls)],
                                     PlatformKey(after.tool, env))
              /\ ( /\ after # before
                   /\ before.pc # "done"
                   /\ after.pc = "done"
                   /\ KeyUnset(after.tool, env)
                   /\ Get(after.result, "error") \in
                         {Str(ApiKeyRequired), Str(ResendKeyRequired)} ) =>
                      Len(after.calls) = Len(before.calls)
              /\ ( /\ before.pc = "idle"
                   /\ after.tool \in SiteTools
                   /\ ~Truthy(Get(after.args, "siteId"))
                   /\ Len(after.calls) = 1 ) =>
                      /\ Truthy(env.WEBFLOW_SITE_ID)
                      /\ AddressedTo(after.calls[1], env.WEBFLOW_SITE_ID.str)]_vars

\* Register was issued while the key was set; the key was removed before its
\* answer came, and the handler, reading the key again for Apply, returned the
\* configuration error with one request made.
C24_Witness ==
    \E s \in AddCustomCodeSlots :
        /\ inv[s].pc = "done"
        /\ Len(inv[s].calls) = 1
        /\ Len(inv[s].replies) = 1
        /\ CarriesId(inv[s].replies[1])
        /\ <<"Authorization", "Bearer wf-key">> \in inv[s].calls[1].headers
        /\ Get(inv[s].result, "error") = Str(ApiKeyRequired)

-----------------------------------------------------------------------------
(* Concurrent invocations: two handlers in flight at once, their awaits    *)
(* settling in any order.                                                  *)

ConcurrentSlots == {1, 2}

\* The inputs and upstream answers the two-invocation runs draw from.
InScope(slot) ==
    /\ slot.tool \in {"addCustomCode", "listPages", "sendEmail"}
    /\ Get(slot.args, "siteId") # Str("")
    /\ Get(slot.args, "pageId") # Str("")
    /\ Get(slot.args, "sourceCode") \in {Undef, Str(Repeat("x", ShortLen))}
    /\ Get(slot.args, "location") \in {Undef, Str("header")}
    /\ Get(slot.args, "limit") = Undef
    /\ Get(slot.args, "offset") = Undef
    /\ Get(slot.args, "topicId") = Undef
    /\ Get(slot.args, "template") = Undef
    /\ \A i \in DOMAIN slot.replies :
          slot.replies[i] \in
              { [reject |-> JsError("fetch failed")],
                Response(429, "{\"message\":\"Rate limited\"}",
                         Ok(Obj([message |-> Str("Rate limited")]))),
                Success(Obj(<<>>)),
                Success(Obj([id |-> Str("script-123")])),
                Success(Obj([id |-> Num(42)])),
                Success(Obj([pages |-> Arr(<<>>), pagination |-> Obj([limit |-> Num(5)])])),
                Settled(Null, Null),
                Settled(Null, Obj([message |-> Str("Unauthorized")])) }

InitConcurrent ==
    /\ env = [ WEBFLOW_API_KEY |-> Str("wf-key"),
               WEBFLOW_SITE_ID |-> Str("env-site"),
               RESEND_API_KEY  |-> Str("re-key") ]
    /\ inv = [s \in ConcurrentSlots |-> Idle]
    /\ probe = NoProbe

NextConcurrent ==
    \/ \E s \in DOMAIN inv : AddCustomCode(s) /\ InScope(inv'[s])
    \/ \E s \in DOMAIN inv : AddCustomCodeRegisterSettled(s) /\ InScope(inv'[s])
    \/ \E s \in DOMAIN inv : AddCustomCodeApplySettled(s) /\ InScope(inv'[s])
    \/ \E s \in DOMAIN inv : Execute(s, "listPages") /\ InScope(inv'[s])
    \/ \E s \in DOMAIN inv : Resume(s, "listPages") /\ InScope(inv'[s])
    \/ \E s \in DOMAIN inv : Execute(s, "sendEmail") /\ InScope(inv'[s])
    \/ \E s \in DOMAIN inv : Resume(s, "sendEmail") /\ InScope(inv'[s])
    \/ \E s \in DOMAIN inv : TakeResult(s)

SpecConcurrent == InitConcurrent /\ [][NextConcurrent]_vars

\* The site an addCustomCode invocation works on: its own siteId argument, or
\* the configured default.
OwnSite(slot) ==
    IF Truthy(Get(slot.args, "siteId")) THEN Get(slot.args, "siteId").str
    ELSE env.WEBFLOW_SITE_ID.str

\* The identifier the invocation's own Register call was answered with.
OwnScriptId(slot) == Str(IdText(Get(slot.replies[1].json.ok, "id")))

\* What an addCustomCode invocation shows is what its own arguments and its
\* own answers determine.
OwnOutcome(slot) ==
    /\ Len(slot.calls) >= 2 =>
          /\ Len(slot.replies) >= 1
          /\ CarriesId(slot.replies[1])
          /\ Get(slot.calls[2].body, "scripts").arr[1].obj.id = OwnScriptId(slot)
    /\ (slot.pc = "done" /\ Get(slot.result, "success") = Bool(TRUE)) =>
          /\ Len(slot.replies) = 2
          /\ CarriesId(slot.replies[1])
          /\ HttpSuccess(slot.replies[2])
          /\ slot.result =
                Obj([ success   |-> Bool(TRUE),
                      scriptId  |-> OwnScriptId(slot),
                      appliedTo |->
                          IF Get(slot.args, "target") = Str("page")
                          THEN Str("page:" \o Get(slot.args, "pageId").str)
                          ELSE Str("site:" \o OwnSite(slot)) ])
    /\ (slot.pc = "done" /\ slot.replies # <<>> /\ ~HttpSuccess(LastReply(slot))) =>
          /\ Get(slot.result, "success") = Bool(FALSE)
          /\ Get(slot.result, "error") = Str(CallError(LastReply(slot)))

\* C25: with two invocations in flight in any interleaving, the Apply request
\* of each addCustomCode invocation carries the script id its own Register
\* call returned, and its result is the one its own arguments and answers
\* determine; two invocations of one tool with the same arguments and the same
\* answers show the same requests and the same result; and a step of one
\* invocation leaves every other invocation as it was.
C25_Independent ==
    /\ [](/\ \A s \in AddCustomCodeSlots : OwnOutcome(inv[s])
          /\ \A s, t \in DOMAIN inv :
                ( /\ inv[s].tool = inv[t].tool
                  /\ inv[s].args = inv[t].args
                  /\ inv[s].replies = inv[t].replies ) => inv[s] = inv[t])
    /\ [][\A s, t \in DOMAIN inv :
              (s # t /\ inv'[s] # inv[s]) => inv'[t] = inv[t]]_vars

\* Two addCustomCode invocations whose Register and Apply calls interleaved:
\* the first registered script-123 and the second 42, both Apply requests were
\* issued, each with its own identifier, and the first has returned success.
C25_Witness ==
    /\ inv[1].tool = "addCustomCode" /\ inv[1].pc = "done"
    /\ inv[2].tool = "addCustomCode" /\ inv[2].pc = "awaitApply"
    /\ Get(inv[1].result, "scriptId") = Str("script-123")
    /\ Get(inv[1].calls[2].body, "scripts").arr[1].obj.id = Str("script-123")
    /\ Get(inv[2].calls[2].body, "scripts").arr[1].obj.id = Str("42")
    /\ Get(inv[2].replies[1].json.ok, "id") = Num(42)

-----------------------------------------------------------------------------
(* Non-success HTTP statuses.                                              *)

\* C26: whenever the last request of a Webflow invocation was answered with a
\* status outside 200..299, the invocation has returned a failure (success
\* false where the tool's output has that field) whose error is
\* "Webflow API error <status>: <body text>", the body text verbatim, whether
\* or not that body would parse as JSON.
C26_HttpFailureVerbatim ==
    \A s \in DOMAIN inv :
        ( /\ inv[s].tool \in WebflowTools
          /\ inv[s].replies # <<>>
          /\ HttpFailure(LastReply(inv[s])) ) =>
            /\ inv[s].pc = "done"
            /\ Len(inv[s].replies) = Len(inv[s].calls)
            /\ Get(inv[s].result, "success") =
                  (IF inv[s].tool \in ListTools THEN Undef ELSE Bool(FALSE))
            /\ Get(inv[s].result, "error") =
                  Str("Webflow API error " \o ToString(LastReply(inv[s]).status)
                          \o ": " \o LastReply(inv[s]).text)

\* listForms answered 401 with a body that is JSON: the error carries that
\* body as text, unparsed.
C26_Witness ==
    \E s \in DOMAIN inv :
        /\ inv[s].pc = "done"
        /\ inv[s].tool = "listForms"
        /\ Len(inv[s].replies) = 1
        /\ inv[s].replies[1] = Response(401, "{\"message\":\"Unauthorized\"}",
                                        Ok(Obj([message |-> Str("Unauthorized")])))
        /\ Get(inv[s].result, "error")
              = Str("Webflow API error 401: {\"message\":\"Unauthorized\"}")

-----------------------------------------------------------------------------
(* What sendEmail forwards.                                                *)

\* The inputs of sendEmail the caller defined.
DefinedInputs(args) == {k \in SendEmailKeys : Get(args, k) # Undef}

\* C27: every sendEmail invocation that got past the API key check has made
\* one emails.send call whose parameters are exactly the inputs the caller
\* defined, each with its value: from, to and subject always, html and
\* template both when both were given; and the only failure sendEmail returns
\* without having made the call is the missing API key.
C27_ForwardsDefined ==
    \A s \in DOMAIN inv :
        (inv[s].tool = "sendEmail" /\ inv[s].pc # "idle") =>
            IF inv[s].calls = <<>>
            THEN /\ inv[s].pc = "done"
                 /\ Get(inv[s].result, "error") = Str(ResendKeyRequired)
            ELSE LET params == inv[s].calls[1].params
                 IN  /\ Len(inv[s].calls) = 1
                     /\ inv[s].calls[1].api = "emails.send"
                     /\ IsObj(params)
                     /\ DOMAIN params.obj = DefinedInputs(inv[s].args)
                     /\ {"from", "to", "subject"} \subseteq DOMAIN params.obj
                     /\ \A k \in DOMAIN params.obj : params.obj[k] = Get(inv[s].args, k)

\* html and template given together, with an empty topicId: one call carries
\* all three, and the invocation succeeded.
C27_Witness ==
    \E s \in DOMAIN inv :
        /\ inv[s].tool = "sendEmail"
        /\ inv[s].pc = "done"
        /\ Get(inv[s].args, "html") = Str("<p>Hello!</p>")
        /\ Get(inv[s].args, "template") = Obj([id |-> Str("tmpl-1")])
        /\ Len(inv[s].calls) = 1
        /\ Get(inv[s].calls[1].params, "html") = Str("<p>Hello!</p>")
        /\ Get(inv[s].calls[1].params, "template") = Obj([id |-> Str("tmpl-1")])
        /\ Get(inv[s].calls[1].params, "topicId") = Str("")
        /\ Get(inv[s].result, "success") = Bool(TRUE)

-----------------------------------------------------------------------------
(* The results of addCustomCode.                                           *)

\* C28: every result addCustomCode has returned is either a success, with a
\* non-empty scriptId, appliedTo and no error, or a failure, with scriptId ""
\* and an error string, so that success is true exactly when scriptId is
\* non-empty; a failure after a successful Register does not name the script
\* that was registered.
C28_ResultShape ==
    \A s \in AddCustomCodeSlots :
        inv[s].pc = "done" =>
            LET r == inv[s].result
            IN  /\ IsObj(r)
                /\ Get(r, "success") \in {Bool(TRUE), Bool(FALSE)}
                /\ IsStr(Get(r, "scriptId"))
                /\ Get(r, "success") = Bool(TRUE) <=> Get(r, "scriptId").str # ""
                /\ Get(r, "success") = Bool(TRUE) =>
                      /\ DOMAIN r.obj = {"success", "scriptId", "appliedTo"}
                      /\ IsStr(Get(r, "appliedTo"))
                /\ Get(r, "success") = Bool(FALSE) =>
                      /\ DOMAIN r.obj = {"success", "scriptId", "error"}
                      /\ Get(r, "scriptId") = Str("")
                      /\ IsStr(Get(r, "error"))

\* Register answered with script-123 and the Apply call was rejected: the
\* failure has scriptId "" although a script is registered.
C28_Witness ==
    \E s \in AddCustomCodeSlots :
        /\ inv[s].pc = "done"
        /\ Len(inv[s].replies) = 2
        /\ Get(inv[s].replies[1].json.ok, "id") = Str("script-123")
        /\ Rejected(inv[s].replies[2])
        /\ inv[s].scriptId = Str("script-123")
        /\ Get(inv[s].result, "success") = Bool(FALSE)
        /\ Get(inv[s].result, "scriptId") = Str("")

-----------------------------------------------------------------------------
(* The order of the gates of addCustomCode.                                *)

\* The error of the first gate that stops addCustomCode called with args in
\* the environment e, or "" when none does.
FirstGate(args, e) ==
    IF ~PageIdGiven(args) THEN PageIdRequired
    ELSE IF SourceLength(args) > ScriptLimit
         THEN "Script exceeds the 2000 character limit ("
                  \o ToString(SourceLength(args))
                  \o " characters). Consider hosting the script externally."
    ELSE IF ExpectedSite(Get(args, "siteId"), e.WEBFLOW_SITE_ID) = ""
         THEN SiteIdRequired
    ELSE IF KeyUnset("addCustomCode", e) THEN ApiKeyRequired
    ELSE ""

\* C29: the step that enters addCustomCode returns the error of the first
\* failing gate in the order pageId, source length, site ID, API key, with
\* scriptId "" and no request made, whatever later gates would also fail; it
\* issues the Register request only when all four pass.
C29_GateOrder ==
    [][\A s \in DOMAIN inv :
          (inv[s].pc = "idle" /\ inv'[s].tool = "addCustomCode") =>
              IF FirstGate(inv'[s].args, env) = ""
              THEN /\ inv'[s].pc = "awaitRegister"
                   /\ Len(inv'[s].calls) = 1
              ELSE /\ inv'[s].pc = "done"
                   /\ inv'[s].calls = <<>>
                   /\ inv'[s].result =
                         Obj([ success  |-> Bool(FALSE),
                               scriptId |-> Str(""),
                               error    |-> Str(FirstGate(inv'[s].args, env)) ])]_vars

\* A page-level call with no pageId, a source of 2001 characters, no site ID
\* anywhere and no API key: the pageId error is the one returned.
C29_Witness ==
    \E s \in AddCustomCodeSlots :
        /\ inv[s].pc = "done"
        /\ inv[s].calls = <<>>
        /\ ~PageIdGiven(inv[s].args)
        /\ SourceLength(inv[s].args) = ScriptLimit + 1
        /\ ExpectedSite(Get(inv[s].args, "siteId"), env.WEBFLOW_SITE_ID) = ""
        /\ KeyUnset("addCustomCode", env)
        /\ Get(inv[s].result, "error") = Str(PageIdRequired)

-----------------------------------------------------------------------------
(* When sendEmail reports success.                                         *)

\* The id sendEmail reports for the data the SDK resolved with: data?.id ?? "".
ReportedId(data) ==
    IF IsNullish(data) \/ IsNullish(Get(data, "id")) THEN Str("") ELSE Get(data, "id")

\* C30: a sendEmail invocation has returned success true exactly when its send
\* call resolved with no error object, with or without data; the result is
\* then success true and the id of the data, "" when there is no data, so a
\* send that resolved with neither data nor error ends in success true with
\* the empty id.
C30_SuccessWithoutData ==
    \A s \in DOMAIN inv :
        (inv[s].tool = "sendEmail" /\ inv[s].pc = "done") =>
            LET resolvedClean ==
                    /\ inv[s].replies # <<>>
                    /\ ~Rejected(inv[s].replies[1])
                    /\ ~Truthy(inv[s].replies[1].error)
            IN  /\ Get(inv[s].result, "success") = Bool(TRUE) <=> resolvedClean
                /\ resolvedClean =>
                      inv[s].result =
                          Obj([ success |-> Bool(TRUE),
                                id      |-> ReportedId(inv[s].replies[1].data) ])
                /\ ~resolvedClean =>
                      /\ Get(inv[s].result, "success") = Bool(FALSE)
                      /\ Get(inv[s].result, "id") = Str("")

\* The send call resolved with data null and error null: the result is
\* success true with id "".
C30_Witness ==
    \E s \in DOMAIN inv :
        /\ inv[s].tool = "sendEmail"
        /\ inv[s].pc = "done"
        /\ inv[s].replies = <<Settled(Null, Null)>>
        /\ inv[s].result = Obj([success |-> Bool(TRUE), id |-> Str("")])

====
